---- MODULE Spec2Model ----
(***************************************************************************)
(* ResultFlow: a deferred, immutable flow of fallible steps.               *)
(*                                                                         *)
(* The model is a small-step machine.  The heap holds the ResultFlow       *)
(* objects user code has constructed; every call of `run` from user code   *)
(* is a task with a stack of frames, one frame per `run` in progress (the   *)
(* frame of a combinator calls `this.run` of its receiver and continues    *)
(* when that promise settles).  User callbacks are mocks: each invocation  *)
(* is recorded in the trace of the task that made it.                      *)
(***************************************************************************)
EXTENDS Integers, Sequences, FiniteSets, TLC

VARIABLES heap, tasks, delays, sessions

vars == <<heap, tasks, delays, sessions>>

(* ------------------------------ bounds -------------------------------- *)

\* number of ResultFlow objects user code constructs
MaxFlows == 2

\* number of calls of `run` user code makes
MaxRuns == 3

\* number of those calls whose promise is pending at the same time
MaxActive == 1

\* largest baseDelayMs of an exponential backoff strategy
MaxBase == 3

\* largest maxDelayMs of an exponential backoff strategy
MaxCap == 4

\* number of attempts calculateDelay is asked about
MaxAttempt == 5

\* number of interval ticks that fire in a periodic session
MaxTicks == 3

\* number of evaluations in flight at the same time where they may overlap:
\* the tick handlers of a session, the calls of `run` user code does not await
MaxOverlap == 2

\* number of calls of `interrupt` user code makes on a handle
MaxInterrupts == 2

(* ------------------------------ values -------------------------------- *)

Values == {"v1", "v2"}

Errors == {"e1", "e2"}

\* "{}" is the default context of a `run` called without arguments
Contexts == {"{}", "c1"}

Undefined == "undefined"

\* neverthrow's N.ok / N.err, and a rejected promise
Ok(v) == [tag |-> "ok", val |-> v]

Err(e) == [tag |-> "err", val |-> e]

Rejected(x) == [tag |-> "rejected", val |-> x]

Pending == [tag |-> "pending", val |-> ""]

\* how an async function body ends: a returned value or a thrown one
Return(v) == [tag |-> "return", val |-> v]

Throw(x) == [tag |-> "throw", val |-> x]

ResultInterruption(error) == [tag |-> "ResultInterruption", val |-> error.val]

(* --------------------------- user inputs ------------------------------ *)

NoFn == [id |-> "", tbl |-> [x \in {} |-> ""]]

NoValue == [shape |-> "none"]

\* delay.ts, DelayStrategy; maxDelayMs is <<>> when not given, <<ms>> otherwise
Immediate == [type |-> "immediate", baseDelayMs |-> 0, maxDelayMs |-> <<>>]

ExponentialBackoff(baseDelayMs, maxDelayMs) ==
  [type |-> "exponentialBackoff", baseDelayMs |-> baseDelayMs, maxDelayMs |-> maxDelayMs]

\* the parameter of retryPolicy, its defaults filled in: condition with
\* id "" is the default () => true, beforeRetry with id "" is not given
RetryConfig(condition, beforeRetry, maxRetries, retryStrategy) ==
  [condition |-> condition, beforeRetry |-> beforeRetry,
   maxRetries |-> maxRetries, retryStrategy |-> retryStrategy]

NoConfig == RetryConfig(NoFn, NoFn, 0, Immediate)

NoFlow == [kind |-> "none", builder |-> <<>>, value |-> NoValue, recv |-> 0, f |-> NoFn, config |-> NoConfig]

\* a value handed to tryTo / from / returned by a chain or orElse callback:
\* a Result, a Promise<Result>, a ResultAsync, a thunk producing one of
\* them, or a ResultFlow.  A thunk is a mock function: its first `times`
\* invocations produce `once`, the later ones `res`
ResultLike(shape, thunk, res) ==
  [shape |-> shape, thunk |-> thunk, res |-> res, flow |-> NoFlow, once |-> Pending, times |-> 0]

FlowLike(flow) ==
  [shape |-> "ResultFlow", thunk |-> FALSE, res |-> Pending, flow |-> flow, once |-> Pending, times |-> 0]

\* mock.fn(() => res, () => once, { times })
MockAction(res, once, times) ==
  [ResultLike("Result", TRUE, res) EXCEPT !.once = once, !.times = times]

\* the statements of a builder function
TryTo(rl) == [op |-> "tryTo", rl |-> rl, arg |-> "", mapError |-> NoFn]

TryToWith(rl, m) == [op |-> "tryTo", rl |-> rl, arg |-> "", mapError |-> m]

ReturnTryTo(rl) == [op |-> "returnTryTo", rl |-> rl, arg |-> "", mapError |-> NoFn]

ReturnTryToWith(rl, m) == [op |-> "returnTryTo", rl |-> rl, arg |-> "", mapError |-> m]

ReturnValue(v) == [op |-> "return", rl |-> ResultLike("Result", FALSE, Pending), arg |-> v, mapError |-> NoFn]

Fail(e) == [op |-> "fail", rl |-> ResultLike("Result", FALSE, Pending), arg |-> e, mapError |-> NoFn]

ThrowError(x) == [op |-> "throw", rl |-> ResultLike("Result", FALSE, Pending), arg |-> x, mapError |-> NoFn]

Probe == [op |-> "probe", rl |-> ResultLike("Result", FALSE, Pending), arg |-> "", mapError |-> NoFn]

SwapValue == [v1 |-> "v2", v2 |-> "v1"]

SwapError == [e1 |-> "e2", e2 |-> "e1"]

Builders ==
  { <<ReturnValue("v1")>>,
    <<TryTo(ResultLike("Promise", FALSE, Ok("v1"))), Probe,
      TryTo(ResultLike("Result", FALSE, Ok("v1"))),
      ReturnTryTo(ResultLike("ResultAsync", FALSE, Ok("v2")))>>,
    <<TryTo(ResultLike("Promise", FALSE, Err("e1"))), Probe,
      TryTo(ResultLike("Result", FALSE, Err("e2"))), ReturnValue("v1")>>,
    <<TryTo(ResultLike("ResultAsync", FALSE, Ok("v1"))), Probe,
      TryTo(ResultLike("Result", FALSE, Err("e2"))), Probe,
      ReturnTryTo(ResultLike("Promise", FALSE, Err("e1")))>>,
    <<Probe, Fail("e1"), Probe, ReturnValue("v2")>>,
    <<TryTo(ResultLike("Promise", FALSE, Rejected("Error"))), Probe, ReturnValue("v1")>>,
    <<Probe, ThrowError("Error"), Probe, ReturnValue("v1")>>,
    <<TryToWith(ResultLike("Promise", FALSE, Err("e1")), [id |-> "tryTo.mapError", tbl |-> SwapError]),
      Probe, ReturnValue("v1")>>,
    <<TryToWith(ResultLike("Result", FALSE, Ok("v1")), [id |-> "tryTo.mapError", tbl |-> SwapError]),
      Probe,
      ReturnTryToWith(ResultLike("ResultAsync", FALSE, Ok("v2")), [id |-> "tryTo.mapError", tbl |-> SwapError])>>,
    <<Probe, TryTo(ResultLike("Result", TRUE, Ok("v1"))), Probe, ReturnValue("v2")>>,
    <<ReturnTryToWith(ResultLike("Promise", TRUE, Err("e1")), [id |-> "tryTo.mapError", tbl |-> SwapError])>> }

\* what user code hands to `from` / `lift`
FromValues ==
  { ResultLike("Result", FALSE, Ok("v1")),
    ResultLike("Result", FALSE, Err("e1")),
    ResultLike("Promise", FALSE, Err("e2")),
    ResultLike("ResultAsync", FALSE, Ok("v2")),
    ResultLike("Result", TRUE, Err("e1")),
    ResultLike("Promise", TRUE, Ok("v2")),
    ResultLike("ResultAsync", TRUE, Err("e2")),
    ResultLike("Promise", FALSE, Rejected("Error")) }

\* the callbacks user code hands to the combinators (mocks: id names the mock)
MapFns == { [id |-> "map.f", tbl |-> SwapValue] }

MapErrorFns == { [id |-> "mapError.f", tbl |-> SwapError] }

\* one returns nothing, the other returns a value nobody asked for
SideEffectFns ==
  { [id |-> "sideEffect.f", tbl |-> [x \in Values \cup Errors |-> ""]],
    [id |-> "sideEffect.f", tbl |-> [x \in Values \cup Errors |-> "v1"]] }

\* a flow a callback builds and returns, e.g. (n) => ResultFlow.of(async () => ...)
InlineOf(builder) ==
  [kind |-> "of", builder |-> builder, value |-> NoValue, recv |-> 0, f |-> NoFn, config |-> NoConfig]

\* callbacks of chain / orElse: from the argument to a Result, an async
\* Result or a ResultFlow
PolymorphicTables(dom, swap) ==
  { [x \in dom |-> ResultLike("Result", FALSE, Ok(swap[x]))],
    [x \in dom |-> ResultLike("Promise", FALSE, IF x \in {"v1", "e1"} THEN Err("e2") ELSE Ok("v1"))],
    [x \in dom |-> ResultLike("ResultAsync", FALSE, IF x \in {"v1", "e1"} THEN Ok("v2") ELSE Err("e1"))],
    [x \in dom |-> FlowLike(InlineOf(IF x \in {"v1", "e1"}
                                       THEN <<TryTo(ResultLike("Result", FALSE, Ok("v1"))), Probe, ReturnValue("v2")>>
                                       ELSE <<Fail("e2"), Probe, ReturnValue("v1")>>))],
    [x \in dom |-> FlowLike(InlineOf(IF x \in {"v1", "e1"}
                                       THEN <<TryTo(ResultLike("Promise", FALSE, Err("e1"))), ReturnValue("v1")>>
                                       ELSE <<ThrowError("Error")>>))] }

ChainFns == { [id |-> "chain.f", tbl |-> t] : t \in PolymorphicTables(Values, SwapValue) }

OrElseFns == { [id |-> "orElse.alternative", tbl |-> t] : t \in PolymorphicTables(Errors, [e1 |-> "v2", e2 |-> "v1"]) }

\* the mock actions user code lifts into a flow to put a retry policy on it
MockActions ==
  { MockAction(Err("e1"), Pending, 0),
    MockAction(Ok("v2"), Pending, 0),
    MockAction(Ok("v1"), Err("e1"), 2),
    MockAction(Err("e2"), Err("e1"), 2),
    MockAction(Err("e2"), Err("e1"), 1),
    MockAction(Rejected("Error"), Err("e2"), 1) }

AcceptAll == [id |-> "condition", tbl |-> [x \in Errors |-> TRUE]]

AcceptE1 == [id |-> "condition", tbl |-> [e1 |-> TRUE, e2 |-> FALSE]]

BeforeRetryMock == [id |-> "beforeRetry", tbl |-> [x \in Errors |-> ""]]

\* the retry policies put on them
RetryPolicies ==
  { RetryConfig(NoFn, NoFn, 1, Immediate),
    RetryConfig(NoFn, BeforeRetryMock, 1, Immediate),
    RetryConfig(AcceptAll, BeforeRetryMock, 3, Immediate),
    RetryConfig(NoFn, BeforeRetryMock, 0, Immediate),
    RetryConfig(NoFn, BeforeRetryMock, -1, Immediate),
    RetryConfig(AcceptE1, BeforeRetryMock, 3, ExponentialBackoff(1, <<>>)),
    RetryConfig(AcceptE1, NoFn, 2, Immediate) }

\* the parameters user code hands to retryPolicy
RetryConfigs ==
  { RetryConfig(NoFn, NoFn, 1, Immediate),
    RetryConfig([id |-> "condition", tbl |-> [e1 |-> TRUE, e2 |-> FALSE]],
                [id |-> "beforeRetry", tbl |-> [x \in Errors |-> ""]],
                2, ExponentialBackoff(1, <<>>)) }

(* --------------------------- observations ----------------------------- *)

\* an entry of a task's trace: a `run` entered (the builder invoked with
\* context ctx), a user callback invoked (val its first argument, tag its
\* second one if any, ctx the context handed to it in extras, Undefined when
\* it is handed none), a wait scheduled, or the promise of a `run` settled
Event(ev, fn, obj, tag, val, ctx) ==
  [ev |-> ev, fn |-> fn, obj |-> obj, tag |-> tag, val |-> val, ctx |-> ctx]

CallEvent(fn, obj, arg, ctx) == Event("call", fn, obj, "", arg, ctx)

(* ------------------------------ delay.ts ------------------------------ *)

Min(a, b) == IF a <= b THEN a ELSE b

\* maxDelay ? ... : ... : an absent maxDelay and a maxDelay of 0 are falsy
Truthy(maxDelay) == maxDelay # <<>> /\ maxDelay[1] # 0

\* a slip: the computed delay wraps around at the cap
calculateExponentialDelayWrapping(attempt, baseDelay, maxDelay) ==
  LET delay == baseDelay * 2 ^ (attempt - 1)
  IN IF Truthy(maxDelay) THEN delay % (maxDelay[1] + 1) ELSE delay

calculateExponentialDelay(attempt, baseDelay, maxDelay) ==
  LET delay == baseDelay * 2 ^ (attempt - 1)
  IN IF Truthy(maxDelay) THEN Min(delay, maxDelay[1]) ELSE delay

calculateDelay(retryStrategy, attempt) ==
  IF retryStrategy.type = "immediate"
    THEN 0
    ELSE calculateExponentialDelay(attempt, retryStrategy.baseDelayMs, retryStrategy.maxDelayMs)

(* ----------------------- helpers of ResultFlow ------------------------ *)

\* a slip: the failed Result is unwrapped like a success
unwrapIgnoringFailure(result) ==
  Return(result.val)

unwrap(result) ==
  IF result.tag = "ok" THEN Return(result.val) ELSE Throw(ResultInterruption(result))

\* a slip: the mapper is invoked and what it returns is dropped
mapErrKeepingError(result, mapper) ==
  result

\* PromiseHelpers.mapError on an awaited Result: neverthrow's mapErr
mapErr(result, mapper) ==
  IF result.tag = "err" THEN Err(mapper.tbl[result.val]) ELSE result

\* a slip: a function handed to tryTo is called and what it produces is
\* unwrapped
tryToInvokingThunk(result, options) ==
  IF result.shape = "ResultFlow"
    THEN Throw(Rejected("TypeError"))
    ELSE IF result.res.tag = "rejected"
      THEN Throw(result.res)
      ELSE IF options.id # ""
        THEN unwrap(mapErr(result.res, options))
        ELSE unwrap(result.res)

\* the promise tryTo returns, as the completion its `await` produces; a
\* function or a ResultFlow has no isOk / mapErr method, so the then-handler
\* throws a TypeError
tryTo(result, options) ==
  IF result.thunk \/ result.shape = "ResultFlow"
    THEN Throw(Rejected("TypeError"))
    ELSE IF result.res.tag = "rejected"
      THEN Throw(result.res)
      ELSE IF options.id # ""
        THEN unwrap(mapErr(result.res, options))
        ELSE unwrap(result.res)

\* the invocations of options.mapError that tryTo makes
tryToCalls(result, options, obj, ctx) ==
  IF /\ ~ result.thunk
     /\ result.shape # "ResultFlow"
     /\ result.res.tag = "err"
     /\ options.id # ""
    THEN <<CallEvent(options.id, obj, result.res.val, Undefined)>>
    ELSE <<>>

\* a slip: the interruption is built and returned, never thrown
failReturning(error) == Return(error)

fail(error) == Throw(ResultInterruption(Err(error)))

\* a slip: the type test never recognises a flow
isResultFlowNever(value) == FALSE

isResultFlow(value) == value.shape = "ResultFlow"

\* the promise of a `run`, handed to tryTo or awaited
AsPromise(settled) == ResultLike("Promise", FALSE, settled)

\* a slip: the catch of `run` turns whatever was thrown into a Failure
runCatchingAll(completion) ==
  IF completion.tag = "return"
    THEN Ok(completion.val)
    ELSE Err(completion.val.val)

\* the try / catch of `run` around the awaited builder
run(completion) ==
  IF completion.tag = "return"
    THEN Ok(completion.val)
    ELSE IF completion.val.tag = "ResultInterruption"
      THEN Err(completion.val.val)
      ELSE completion.val

(* ------------------------------ state --------------------------------- *)

\* new ResultFlow(runPromise): the closure and the uninitialised context field
ResultFlow(runPromise) == [runPromise |-> runPromise, context |-> Undefined]

Closure(kind, builder, value, recv, f) ==
  [kind |-> kind, builder |-> builder, value |-> value, recv |-> recv, f |-> f, config |-> NoConfig]

Frame(closure, obj, ctx) ==
  [runPromise |-> closure, obj |-> obj, pc |-> 1, i |-> 0, ctx |-> ctx]

Top(task) == task.stack[Len(task.stack)]

Active(task) == task.stack # <<>>

Done(task) == task.stack = <<>>

TaskIds == 1..Len(tasks)

FlowIds == 1..Len(heap)

Init ==
  /\ heap = <<>>
  /\ tasks = <<>>
  /\ delays = <<>>
  /\ sessions = <<>>

\* `this.context = context` of run; a flow built inside a callback (obj 0)
\* is not an object user code holds
SetContext(h, obj, ctx) ==
  IF obj \in DOMAIN h THEN [h EXCEPT ![obj].context = ctx] ELSE h

\* the frame on top of task t calls run({context}) on the flow obj and will
\* continue at nextpc when that promise settles
CallRun(t, obj, closure, ctx, nextpc, calls) ==
  /\ heap' = SetContext(heap, obj, ctx)
  /\ tasks' = [tasks EXCEPT ![t] =
       [@ EXCEPT !.stack = Append([@ EXCEPT ![Len(@)].pc = nextpc], Frame(closure, obj, ctx)),
                 !.trace = @ \o calls \o <<Event("run", "", obj, "", "", ctx)>>,
                 !.ret = Pending]]
  /\ UNCHANGED <<delays, sessions>>

\* the builder of the frame on top of task t ends with completion: the
\* promise of its run settles and the awaiting frame (or user code) gets it
Settle(t, completion, calls) ==
  LET task == tasks[t]
      frame == Top(task)
      settled == run(completion)
  IN /\ tasks' = [tasks EXCEPT ![t] =
          [@ EXCEPT !.stack = SubSeq(@, 1, Len(@) - 1),
                    !.trace = @ \o calls \o <<Event("settle", "", frame.obj, settled.tag, settled.val, frame.ctx)>>,
                    !.ret = settled]]
     /\ UNCHANGED <<heap, delays, sessions>>

\* the builder of the frame on top of task t goes on to its next statement
Continue(t, calls) ==
  /\ tasks' = [tasks EXCEPT ![t] =
       [@ EXCEPT !.stack = [@ EXCEPT ![Len(@)].pc = @ + 1],
                 !.trace = @ \o calls]]
  /\ UNCHANGED <<heap, delays, sessions>>

\* the builder of the frame on top of task t goes on at nextpc with loop
\* counter nexti
Jump(t, nextpc, nexti, calls) ==
  /\ tasks' = [tasks EXCEPT ![t] =
       [@ EXCEPT !.stack = [@ EXCEPT ![Len(@)].pc = nextpc, ![Len(@)].i = nexti],
                 !.trace = @ \o calls]]
  /\ UNCHANGED <<heap, delays, sessions>>

(* --------------------------- construction ----------------------------- *)

Construct(runPromise) ==
  /\ Len(heap) < MaxFlows
  /\ heap' = Append(heap, ResultFlow(runPromise))
  /\ UNCHANGED <<tasks, delays, sessions>>

\* a slip: the builder is started when the flow is constructed
ofEager(builderFunction) ==
  LET closure == Closure("of", builderFunction, NoValue, 0, NoFn)
      this == Len(heap) + 1
  IN /\ Len(heap) < MaxFlows
     /\ heap' = Append(heap, ResultFlow(closure))
     /\ tasks' = Append(tasks,
          [root |-> this, ctx |-> "{}", session |-> 0,
           stack |-> <<Frame(closure, this, "{}")>>,
           trace |-> <<Event("run", "", this, "", "", "{}")>>,
           ret |-> Pending])
     /\ UNCHANGED <<delays, sessions>>

of(builderFunction) ==
  Construct(Closure("of", builderFunction, NoValue, 0, NoFn))

from(value) ==
  Construct(Closure("from", <<>>, value, 0, NoFn))

\* a slip: a thunk is invoked when the flow is built and what it produced
\* is kept
liftResolvingEarly(value) ==
  from([value EXCEPT !.thunk = FALSE])

lift(value) ==
  from(value)

map(this, f) ==
  Construct(Closure("map", <<>>, NoValue, this, f))

\* a slip: the receiver itself is rewired to the wrapping builder and its
\* former builder lives on only inside the wrapper
mapErrorInPlace(this, f) ==
  /\ Len(heap) < MaxFlows
  /\ heap' = Append([heap EXCEPT ![this].runPromise = Closure("mapError", <<>>, NoValue, Len(heap) + 1, f)],
                    ResultFlow(heap[this].runPromise))
  /\ UNCHANGED <<tasks, delays, sessions>>

mapError(this, f) ==
  Construct(Closure("mapError", <<>>, NoValue, this, f))

chain(this, f) ==
  Construct(Closure("chain", <<>>, NoValue, this, f))

ifSuccess(this, f) ==
  Construct(Closure("ifSuccess", <<>>, NoValue, this, f))

ifFailure(this, f) ==
  Construct(Closure("ifFailure", <<>>, NoValue, this, f))

orElse(this, alternative) ==
  Construct(Closure("orElse", <<>>, NoValue, this, alternative))

retryPolicy(this, config) ==
  Construct([Closure("retryPolicy", <<>>, NoValue, this, NoFn) EXCEPT !.config = config])

(* ----------------------------- evaluation ----------------------------- *)

\* a slip: run remembers the Result of an earlier evaluation of the flow
UserRunMemoized(this, context) ==
  LET earlier == {t \in TaskIds : tasks[t].root = this /\ Done(tasks[t])}
  IN /\ Len(tasks) < MaxRuns
     /\ Cardinality({t \in TaskIds : Active(tasks[t])}) < MaxActive
     /\ heap' = SetContext(heap, this, context)
     /\ tasks' = Append(tasks,
          IF earlier # {}
            THEN [root |-> this, ctx |-> context, session |-> 0, stack |-> <<>>, trace |-> <<>>,
                  ret |-> tasks[CHOOSE t \in earlier : TRUE].ret]
            ELSE [root |-> this, ctx |-> context, session |-> 0,
                  stack |-> <<Frame(heap[this].runPromise, this, context)>>,
                  trace |-> <<Event("run", "", this, "", "", context)>>,
                  ret |-> Pending])
     /\ UNCHANGED <<delays, sessions>>

\* user code calls flow.run({context}) (or flow.run(), context "{}")
UserRun(this, context) ==
  /\ Len(tasks) < MaxRuns
  /\ Cardinality({t \in TaskIds : Active(tasks[t])}) < MaxActive
  /\ heap' = SetContext(heap, this, context)
  /\ tasks' = Append(tasks,
       [root |-> this, ctx |-> context, session |-> 0,
        stack |-> <<Frame(heap[this].runPromise, this, context)>>,
        trace |-> <<Event("run", "", this, "", "", context)>>,
        ret |-> Pending])
  /\ UNCHANGED <<delays, sessions>>

\* a slip: the builder is handed the context field of the flow, which the
\* latest call of run has set, not the context of its own call
BuilderStepReadingField(t) ==
  LET frame == Top(tasks[t])
      stmt == frame.runPromise.builder[frame.pc]
      awaited == tryTo(stmt.rl, stmt.mapError)
      calls == tryToCalls(stmt.rl, stmt.mapError, frame.obj, frame.ctx)
  IN /\ Active(tasks[t])
     /\ frame.runPromise.kind = "of"
     /\ CASE stmt.op = "probe" ->
               Continue(t, <<CallEvent("probe", frame.obj, ToString(frame.pc),
                                       IF frame.obj \in DOMAIN heap
                                         THEN heap[frame.obj].context
                                         ELSE frame.ctx)>>)
          [] stmt.op = "tryTo" ->
               IF awaited.tag = "return" THEN Continue(t, calls) ELSE Settle(t, awaited, calls)
          [] stmt.op = "returnTryTo" -> Settle(t, awaited, calls)
          [] stmt.op = "return" -> Settle(t, Return(stmt.arg), <<>>)
          [] stmt.op = "fail" ->
               IF fail(stmt.arg).tag = "return" THEN Continue(t, <<>>) ELSE Settle(t, fail(stmt.arg), <<>>)
          [] stmt.op = "throw" -> Settle(t, Throw(Rejected(stmt.arg)), <<>>)

\* one statement of a builder given to `of`
BuilderStep(t) ==
  LET frame == Top(tasks[t])
      stmt == frame.runPromise.builder[frame.pc]
      awaited == tryTo(stmt.rl, stmt.mapError)
      calls == tryToCalls(stmt.rl, stmt.mapError, frame.obj, frame.ctx)
  IN /\ Active(tasks[t])
     /\ frame.runPromise.kind = "of"
     /\ CASE stmt.op = "probe" ->
               Continue(t, <<CallEvent("probe", frame.obj, ToString(frame.pc), frame.ctx)>>)
          [] stmt.op = "tryTo" ->
               IF awaited.tag = "return" THEN Continue(t, calls) ELSE Settle(t, awaited, calls)
          [] stmt.op = "returnTryTo" -> Settle(t, awaited, calls)
          [] stmt.op = "return" -> Settle(t, Return(stmt.arg), <<>>)
          [] stmt.op = "fail" ->
               IF fail(stmt.arg).tag = "return" THEN Continue(t, <<>>) ELSE Settle(t, fail(stmt.arg), <<>>)
          [] stmt.op = "throw" -> Settle(t, Throw(Rejected(stmt.arg)), <<>>)

\* how many times the mock fn of the flow obj has been invoked so far
CallCount(fn, obj) ==
  Cardinality(UNION {{<<t, k>> : k \in {i \in DOMAIN tasks[t].trace :
                                          /\ tasks[t].trace[i].ev = "call"
                                          /\ tasks[t].trace[i].fn = fn
                                          /\ tasks[t].trace[i].obj = obj}} : t \in TaskIds})

\* value(): what the thunk of the flow obj produces on this invocation
Produced(value, obj) ==
  [value EXCEPT !.thunk = FALSE,
                !.res = IF CallCount("thunk", obj) < value.times THEN value.once ELSE value.res]

\* the builder `from` makes: tryTo(value()) for a thunk, tryTo(value) otherwise
FromStep(t) ==
  LET frame == Top(tasks[t])
      value == frame.runPromise.value
  IN /\ Active(tasks[t])
     /\ frame.runPromise.kind = "from"
     /\ IF value.thunk
          THEN Settle(t, tryTo(Produced(value, frame.obj), NoFn),
                      <<CallEvent("thunk", frame.obj, "", Undefined)>>)
          ELSE Settle(t, tryTo(value, NoFn), <<>>)

\* the receiver of the combinator frame on top of task t
Receiver(frame) == heap[frame.runPromise.recv].runPromise

\* a slip: f is invoked but the value it returns is dropped
MapStepDroppingResult(t) ==
  LET frame == Top(tasks[t])
      f == frame.runPromise.f
      awaited == tryTo(AsPromise(tasks[t].ret), NoFn)
  IN /\ Active(tasks[t])
     /\ frame.runPromise.kind = "map"
     /\ IF frame.pc = 1
          THEN CallRun(t, frame.runPromise.recv, heap[frame.runPromise.recv].runPromise, frame.ctx, 2, <<>>)
          ELSE IF awaited.tag = "return"
            THEN Settle(t, Return(awaited.val),
                        <<CallEvent(f.id, frame.obj, awaited.val, frame.ctx)>>)
            ELSE Settle(t, awaited, <<>>)

MapStep(t) ==
  LET frame == Top(tasks[t])
      f == frame.runPromise.f
      awaited == tryTo(AsPromise(tasks[t].ret), NoFn)
  IN /\ Active(tasks[t])
     /\ frame.runPromise.kind = "map"
     /\ IF frame.pc = 1
          THEN CallRun(t, frame.runPromise.recv, Receiver(frame), frame.ctx, 2, <<>>)
          ELSE IF awaited.tag = "return"
            THEN Settle(t, Return(f.tbl[awaited.val]),
                        <<CallEvent(f.id, frame.obj, awaited.val, frame.ctx)>>)
            ELSE Settle(t, awaited, <<>>)

\* a slip: f is invoked but the flow fails with the original error
MapErrorStepDroppingResult(t) ==
  LET frame == Top(tasks[t])
      f == frame.runPromise.f
      result == tasks[t].ret
  IN /\ Active(tasks[t])
     /\ frame.runPromise.kind = "mapError"
     /\ IF frame.pc = 1
          THEN CallRun(t, frame.runPromise.recv, heap[frame.runPromise.recv].runPromise, frame.ctx, 2, <<>>)
          ELSE CASE result.tag = "rejected" -> Settle(t, Throw(result), <<>>)
                 [] result.tag = "err" ->
                      Settle(t, fail(result.val),
                             <<CallEvent(f.id, frame.obj, result.val, frame.ctx)>>)
                 [] result.tag = "ok" -> Settle(t, Return(result.val), <<>>)

\* a slip: a fault raised by the receiver is caught and handled like a
\* domain failure
MapErrorStepCatchingFaults(t) ==
  LET frame == Top(tasks[t])
      f == frame.runPromise.f
      result == tasks[t].ret
  IN /\ Active(tasks[t])
     /\ frame.runPromise.kind = "mapError"
     /\ IF frame.pc = 1
          THEN CallRun(t, frame.runPromise.recv, heap[frame.runPromise.recv].runPromise, frame.ctx, 2, <<>>)
          ELSE CASE result.tag = "rejected" ->
                      Settle(t, fail(result.val),
                             <<CallEvent(f.id, frame.obj, result.val, frame.ctx)>>)
                 [] result.tag = "err" ->
                      Settle(t, fail(f.tbl[result.val]),
                             <<CallEvent(f.id, frame.obj, result.val, frame.ctx)>>)
                 [] result.tag = "ok" -> Settle(t, Return(result.val), <<>>)

MapErrorStep(t) ==
  LET frame == Top(tasks[t])
      f == frame.runPromise.f
      result == tasks[t].ret
  IN /\ Active(tasks[t])
     /\ frame.runPromise.kind = "mapError"
     /\ IF frame.pc = 1
          THEN CallRun(t, frame.runPromise.recv, Receiver(frame), frame.ctx, 2, <<>>)
          ELSE CASE result.tag = "rejected" -> Settle(t, Throw(result), <<>>)
                 [] result.tag = "err" ->
                      Settle(t, fail(f.tbl[result.val]),
                             <<CallEvent(f.id, frame.obj, result.val, frame.ctx)>>)
                 [] result.tag = "ok" -> Settle(t, Return(result.val), <<>>)

\* a slip: the flow f returns is run without the extras, so with the
\* default context
ChainStepRunningBare(t) ==
  LET frame == Top(tasks[t])
      f == frame.runPromise.f
      awaited == tryTo(AsPromise(tasks[t].ret), NoFn)
      fResult == f.tbl[awaited.val]
      call == <<CallEvent(f.id, frame.obj, awaited.val, frame.ctx)>>
  IN /\ Active(tasks[t])
     /\ frame.runPromise.kind = "chain"
     /\ CASE frame.pc = 1 ->
               CallRun(t, frame.runPromise.recv, heap[frame.runPromise.recv].runPromise, frame.ctx, 2, <<>>)
          [] frame.pc = 2 ->
               IF awaited.tag # "return"
                 THEN Settle(t, awaited, <<>>)
                 ELSE IF isResultFlow(fResult)
                   THEN CallRun(t, 0, fResult.flow, "{}", 3, call)
                   ELSE Settle(t, tryTo(fResult, NoFn), call)
          [] frame.pc = 3 -> Settle(t, awaited, <<>>)

ChainStep(t) ==
  LET frame == Top(tasks[t])
      f == frame.runPromise.f
      awaited == tryTo(AsPromise(tasks[t].ret), NoFn)
      fResult == f.tbl[awaited.val]
      call == <<CallEvent(f.id, frame.obj, awaited.val, frame.ctx)>>
  IN /\ Active(tasks[t])
     /\ frame.runPromise.kind = "chain"
     /\ CASE frame.pc = 1 ->
               CallRun(t, frame.runPromise.recv, Receiver(frame), frame.ctx, 2, <<>>)
          [] frame.pc = 2 ->
               IF awaited.tag # "return"
                 THEN Settle(t, awaited, <<>>)
                 ELSE IF isResultFlow(fResult)
                   THEN CallRun(t, 0, fResult.flow, frame.ctx, 3, call)
                   ELSE Settle(t, tryTo(fResult, NoFn), call)
          [] frame.pc = 3 -> Settle(t, awaited, <<>>)

\* a slip: what f returns becomes the value of the flow
IfSuccessStepReturningF(t) ==
  LET frame == Top(tasks[t])
      f == frame.runPromise.f
      awaited == tryTo(AsPromise(tasks[t].ret), NoFn)
  IN /\ Active(tasks[t])
     /\ frame.runPromise.kind = "ifSuccess"
     /\ IF frame.pc = 1
          THEN CallRun(t, frame.runPromise.recv, heap[frame.runPromise.recv].runPromise, frame.ctx, 2, <<>>)
          ELSE IF awaited.tag = "return"
            THEN Settle(t, Return(f.tbl[awaited.val]),
                        <<CallEvent(f.id, frame.obj, awaited.val, frame.ctx)>>)
            ELSE Settle(t, awaited, <<>>)

IfSuccessStep(t) ==
  LET frame == Top(tasks[t])
      f == frame.runPromise.f
      awaited == tryTo(AsPromise(tasks[t].ret), NoFn)
  IN /\ Active(tasks[t])
     /\ frame.runPromise.kind = "ifSuccess"
     /\ IF frame.pc = 1
          THEN CallRun(t, frame.runPromise.recv, Receiver(frame), frame.ctx, 2, <<>>)
          ELSE IF awaited.tag = "return"
            THEN Settle(t, Return(awaited.val),
                        <<CallEvent(f.id, frame.obj, awaited.val, frame.ctx)>>)
            ELSE Settle(t, awaited, <<>>)

\* a slip: once f has seen the error the flow goes on as if recovered
IfFailureStepRecovering(t) ==
  LET frame == Top(tasks[t])
      f == frame.runPromise.f
      result == tasks[t].ret
  IN /\ Active(tasks[t])
     /\ frame.runPromise.kind = "ifFailure"
     /\ IF frame.pc = 1
          THEN CallRun(t, frame.runPromise.recv, heap[frame.runPromise.recv].runPromise, frame.ctx, 2, <<>>)
          ELSE CASE result.tag = "rejected" -> Settle(t, Throw(result), <<>>)
                 [] result.tag = "err" ->
                      Settle(t, Return(f.tbl[result.val]),
                             <<CallEvent(f.id, frame.obj, result.val, frame.ctx)>>)
                 [] result.tag = "ok" -> Settle(t, Return(result.val), <<>>)

\* a slip: the error handed on is read from a second evaluation of the
\* receiver
IfFailureStepReevaluating(t) ==
  LET frame == Top(tasks[t])
      f == frame.runPromise.f
      result == tasks[t].ret
  IN /\ Active(tasks[t])
     /\ frame.runPromise.kind = "ifFailure"
     /\ IF frame.pc = 1
          THEN CallRun(t, frame.runPromise.recv, heap[frame.runPromise.recv].runPromise, frame.ctx, 2, <<>>)
          ELSE IF result.tag = "rejected"
            THEN Settle(t, Throw(result), <<>>)
            ELSE IF result.tag = "ok"
              THEN Settle(t, Return(result.val), <<>>)
              ELSE IF frame.pc = 2
                THEN CallRun(t, frame.runPromise.recv, heap[frame.runPromise.recv].runPromise, frame.ctx, 3,
                             <<CallEvent(f.id, frame.obj, result.val, frame.ctx)>>)
                ELSE Settle(t, fail(result.val), <<>>)

IfFailureStep(t) ==
  LET frame == Top(tasks[t])
      f == frame.runPromise.f
      result == tasks[t].ret
  IN /\ Active(tasks[t])
     /\ frame.runPromise.kind = "ifFailure"
     /\ IF frame.pc = 1
          THEN CallRun(t, frame.runPromise.recv, Receiver(frame), frame.ctx, 2, <<>>)
          ELSE CASE result.tag = "rejected" -> Settle(t, Throw(result), <<>>)
                 [] result.tag = "err" ->
                      Settle(t, fail(result.val),
                             <<CallEvent(f.id, frame.obj, result.val, frame.ctx)>>)
                 [] result.tag = "ok" -> Settle(t, Return(result.val), <<>>)

\* a slip: the receiver is unwrapped with tryTo, so its failure interrupts
\* the builder before the alternative is looked at
OrElseStepUnwrapping(t) ==
  LET frame == Top(tasks[t])
      awaited == tryTo(AsPromise(tasks[t].ret), NoFn)
  IN /\ Active(tasks[t])
     /\ frame.runPromise.kind = "orElse"
     /\ IF frame.pc = 1
          THEN CallRun(t, frame.runPromise.recv, heap[frame.runPromise.recv].runPromise, frame.ctx, 2, <<>>)
          ELSE Settle(t, awaited, <<>>)

OrElseStep(t) ==
  LET frame == Top(tasks[t])
      alternative == frame.runPromise.f
      result == tasks[t].ret
      alternativeResult == alternative.tbl[result.val]
      call == <<CallEvent(alternative.id, frame.obj, result.val, frame.ctx)>>
  IN /\ Active(tasks[t])
     /\ frame.runPromise.kind = "orElse"
     /\ CASE frame.pc = 1 ->
               CallRun(t, frame.runPromise.recv, Receiver(frame), frame.ctx, 2, <<>>)
          [] frame.pc = 2 ->
               IF result.tag = "rejected"
                 THEN Settle(t, Throw(result), <<>>)
                 ELSE IF result.tag = "ok"
                   THEN Settle(t, Return(result.val), <<>>)
                   ELSE IF isResultFlow(alternativeResult)
                     THEN CallRun(t, 0, alternativeResult.flow, frame.ctx, 3, call)
                     ELSE Settle(t, tryTo(alternativeResult, NoFn), call)
          [] frame.pc = 3 -> Settle(t, tryTo(AsPromise(result), NoFn), <<>>)

\* a slip: the loop makes one round too many
InLoopOffByOne(i, maxRetries) == i <= maxRetries

\* the test of the for loop: i < maxRetries
InLoop(i, maxRetries) == i < maxRetries

\* a slip: the condition is not consulted
shouldRetryAlways(condition, error) == TRUE

\* const shouldRetry = condition(result.error), condition defaulting to
\* () => true
shouldRetry(condition, error) == condition.id = "" \/ condition.tbl[error]

\* a slip: beforeRetry is invoked once an attempt has settled, before its
\* Result is looked at
RetryPolicyStepAnnouncingEarly(t) ==
  LET frame == Top(tasks[t])
      config == frame.runPromise.config
      result == tasks[t].ret
      delay == calculateDelay(config.retryStrategy, frame.i + 1)
      conditionCall ==
        IF config.condition.id = "" THEN <<>>
        ELSE <<CallEvent(config.condition.id, frame.obj, result.val, Undefined)>>
      beforeRetryCall ==
        IF config.beforeRetry.id = "" THEN <<>>
        ELSE <<Event("call", config.beforeRetry.id, frame.obj, ToString(frame.i + 1), result.val, Undefined)>>
  IN /\ Active(tasks[t])
     /\ frame.runPromise.kind = "retryPolicy"
     /\ CASE frame.pc = 1 ->
               CallRun(t, frame.runPromise.recv, heap[frame.runPromise.recv].runPromise, frame.ctx,
                       IF InLoop(frame.i, config.maxRetries) THEN 2 ELSE 5, <<>>)
          [] frame.pc = 2 ->
               IF result.tag = "rejected"
                 THEN Settle(t, Throw(result), <<>>)
                 ELSE IF result.tag = "ok"
                   THEN Settle(t, Return(result.val), beforeRetryCall)
                   ELSE IF shouldRetry(config.condition, result.val)
                     THEN Jump(t, 3, frame.i, conditionCall \o beforeRetryCall)
                     ELSE Settle(t, fail(result.val), conditionCall)
          [] frame.pc = 3 ->
               IF delay > 0
                 THEN Jump(t, 4, frame.i, <<Event("wait", "", frame.obj, "", ToString(delay), frame.ctx)>>)
                 ELSE Jump(t, 1, frame.i + 1, <<>>)
          [] frame.pc = 4 -> Jump(t, 1, frame.i + 1, <<>>)
          [] frame.pc = 5 -> Settle(t, tryTo(AsPromise(result), NoFn), <<>>)

\* a slip: when the retries are used up the flow fails with the error of
\* the first attempt
RetryPolicyStepReportingFirst(t) ==
  LET frame == Top(tasks[t])
      config == frame.runPromise.config
      result == tasks[t].ret
      delay == calculateDelay(config.retryStrategy, frame.i + 1)
      conditionCall ==
        IF config.condition.id = "" THEN <<>>
        ELSE <<CallEvent(config.condition.id, frame.obj, result.val, Undefined)>>
      beforeRetryCall ==
        IF config.beforeRetry.id = "" THEN <<>>
        ELSE <<Event("call", config.beforeRetry.id, frame.obj, ToString(frame.i + 1), result.val, Undefined)>>
  IN /\ Active(tasks[t])
     /\ frame.runPromise.kind = "retryPolicy"
     /\ CASE frame.pc = 1 ->
               CallRun(t, frame.runPromise.recv, heap[frame.runPromise.recv].runPromise, frame.ctx,
                       IF InLoop(frame.i, config.maxRetries) THEN 2 ELSE 5, <<>>)
          [] frame.pc = 2 ->
               IF result.tag = "rejected"
                 THEN Settle(t, Throw(result), <<>>)
                 ELSE IF result.tag = "ok"
                   THEN Settle(t, Return(result.val), <<>>)
                   ELSE IF shouldRetry(config.condition, result.val)
                     THEN Jump(t, 3, frame.i, conditionCall \o beforeRetryCall)
                     ELSE Settle(t, fail(result.val), conditionCall)
          [] frame.pc = 3 ->
               IF delay > 0
                 THEN Jump(t, 4, frame.i, <<Event("wait", "", frame.obj, "", ToString(delay), frame.ctx)>>)
                 ELSE Jump(t, 1, frame.i + 1, <<>>)
          [] frame.pc = 4 -> Jump(t, 1, frame.i + 1, <<>>)
          [] frame.pc = 5 ->
               LET trace == tasks[t].trace
                   entries == {k \in DOMAIN trace : trace[k].ev = "run" /\ trace[k].obj = frame.obj}
                   entry == CHOOSE k \in entries : \A h \in entries : h <= k
                   results == {k \in DOMAIN trace : /\ k > entry
                                                     /\ trace[k].ev = "settle"
                                                     /\ trace[k].obj = frame.runPromise.recv}
                   first == CHOOSE k \in results : \A h \in results : k <= h
               IN IF result.tag = "err"
                    THEN Settle(t, fail(trace[first].val), <<>>)
                    ELSE Settle(t, tryTo(AsPromise(result), NoFn), <<>>)

\* the builder retryPolicy makes.  pc 1: the head of the for loop, and the
\* run after it; pc 2: the Result of an attempt; pc 3: beforeRetry has
\* completed; pc 4: the wait has elapsed; pc 5: the Result of the last run
\* a slip: the promise of the wait is not awaited, the next attempt starts
\* at once
RetryPolicyStepNotWaiting(t) ==
  LET frame == Top(tasks[t])
      config == frame.runPromise.config
      result == tasks[t].ret
      delay == calculateDelay(config.retryStrategy, frame.i + 1)
      conditionCall ==
        IF config.condition.id = "" THEN <<>>
        ELSE <<CallEvent(config.condition.id, frame.obj, result.val, Undefined)>>
      beforeRetryCall ==
        IF config.beforeRetry.id = "" THEN <<>>
        ELSE <<Event("call", config.beforeRetry.id, frame.obj, ToString(frame.i + 1), result.val, Undefined)>>
  IN /\ Active(tasks[t])
     /\ frame.runPromise.kind = "retryPolicy"
     /\ CASE frame.pc = 1 ->
               CallRun(t, frame.runPromise.recv, Receiver(frame), frame.ctx,
                       IF InLoop(frame.i, config.maxRetries) THEN 2 ELSE 5, <<>>)
          [] frame.pc = 2 ->
               IF result.tag = "rejected"
                 THEN Settle(t, Throw(result), <<>>)
                 ELSE IF result.tag = "ok"
                   THEN Settle(t, Return(result.val), <<>>)
                   ELSE IF shouldRetry(config.condition, result.val)
                     THEN Jump(t, 3, frame.i, conditionCall \o beforeRetryCall)
                     ELSE Settle(t, fail(result.val), conditionCall)
          [] frame.pc = 3 ->
               Jump(t, 1, frame.i + 1, <<>>)
          [] frame.pc = 4 -> Jump(t, 1, frame.i + 1, <<>>)
          [] frame.pc = 5 -> Settle(t, tryTo(AsPromise(result), NoFn), <<>>)

RetryPolicyStep(t) ==
  LET frame == Top(tasks[t])
      config == frame.runPromise.config
      result == tasks[t].ret
      delay == calculateDelay(config.retryStrategy, frame.i + 1)
      conditionCall ==
        IF config.condition.id = "" THEN <<>>
        ELSE <<CallEvent(config.condition.id, frame.obj, result.val, Undefined)>>
      beforeRetryCall ==
        IF config.beforeRetry.id = "" THEN <<>>
        ELSE <<Event("call", config.beforeRetry.id, frame.obj, ToString(frame.i + 1), result.val, Undefined)>>
  IN /\ Active(tasks[t])
     /\ frame.runPromise.kind = "retryPolicy"
     /\ CASE frame.pc = 1 ->
               CallRun(t, frame.runPromise.recv, Receiver(frame), frame.ctx,
                       IF InLoop(frame.i, config.maxRetries) THEN 2 ELSE 5, <<>>)
          [] frame.pc = 2 ->
               IF result.tag = "rejected"
                 THEN Settle(t, Throw(result), <<>>)
                 ELSE IF result.tag = "ok"
                   THEN Settle(t, Return(result.val), <<>>)
                   ELSE IF shouldRetry(config.condition, result.val)
                     THEN Jump(t, 3, frame.i, conditionCall \o beforeRetryCall)
                     ELSE Settle(t, fail(result.val), conditionCall)
          [] frame.pc = 3 ->
               IF delay > 0
                 THEN Jump(t, 4, frame.i, <<Event("wait", "", frame.obj, "", ToString(delay), frame.ctx)>>)
                 ELSE Jump(t, 1, frame.i + 1, <<>>)
          [] frame.pc = 4 -> Jump(t, 1, frame.i + 1, <<>>)
          [] frame.pc = 5 -> Settle(t, tryTo(AsPromise(result), NoFn), <<>>)

Next ==
  \/ \E b \in Builders : of(b)
  \/ \E v \in FromValues : from(v)
  \/ \E v \in FromValues : lift(v)
  \/ \E this \in FlowIds, f \in MapFns : map(this, f)
  \/ \E this \in FlowIds, f \in MapErrorFns : mapError(this, f)
  \/ \E this \in FlowIds, f \in ChainFns : chain(this, f)
  \/ \E this \in FlowIds, f \in SideEffectFns : ifSuccess(this, f)
  \/ \E this \in FlowIds, f \in SideEffectFns : ifFailure(this, f)
  \/ \E this \in FlowIds, f \in OrElseFns : orElse(this, f)
  \/ \E this \in FlowIds, config \in RetryConfigs : retryPolicy(this, config)
  \/ \E this \in FlowIds, c \in Contexts : UserRun(this, c)
  \/ \E t \in TaskIds : BuilderStep(t)
  \/ \E t \in TaskIds : FromStep(t)
  \/ \E t \in TaskIds : MapStep(t)
  \/ \E t \in TaskIds : MapErrorStep(t)
  \/ \E t \in TaskIds : ChainStep(t)
  \/ \E t \in TaskIds : IfSuccessStep(t)
  \/ \E t \in TaskIds : IfFailureStep(t)
  \/ \E t \in TaskIds : OrElseStep(t)
  \/ \E t \in TaskIds : RetryPolicyStep(t)

Spec == Init /\ [][Next]_vars

\* the retry policy on mock actions whose results vary from call to call
NextRetry ==
  \/ \E v \in MockActions : from(v)
  \/ \E this \in FlowIds, config \in RetryPolicies : retryPolicy(this, config)
  \/ \E this \in FlowIds, c \in Contexts : UserRun(this, c)
  \/ \E t \in TaskIds : FromStep(t)
  \/ \E t \in TaskIds : RetryPolicyStep(t)

SpecRetry == Init /\ [][NextRetry]_vars

\* ResultFlow.from(action).retryPolicy(config).ifFailure(f).orElse(alternative)
Pipeline(action, config, f, alternative) ==
  << ResultFlow(Closure("from", <<>>, action, 0, NoFn)),
     ResultFlow([Closure("retryPolicy", <<>>, NoValue, 1, NoFn) EXCEPT !.config = config]),
     ResultFlow(Closure("ifFailure", <<>>, NoValue, 2, f)),
     ResultFlow(Closure("orElse", <<>>, NoValue, 3, alternative)) >>

\* the alternatives appended after a retry policy: one returns a Result,
\* one a flow
AppendedAlternatives ==
  {alternative \in OrElseFns :
     \/ alternative.tbl["e1"] = ResultLike("Result", FALSE, Ok("v2"))
     \/ /\ alternative.tbl["e1"].shape = "ResultFlow"
        /\ alternative.tbl["e2"].flow.builder[1].op = "fail"}

\* combinators appended after a retry policy: the flows are built, user code
\* runs them
InitAppended ==
  /\ heap \in {Pipeline(action, config, f, alternative) :
                 action \in MockActions, config \in RetryPolicies,
                 f \in {g \in SideEffectFns : g.tbl["e1"] = ""},
                 alternative \in AppendedAlternatives}
  /\ tasks = <<>>
  /\ delays = <<>>
  /\ sessions = <<>>

NextAppended ==
  \/ \E this \in FlowIds : UserRun(this, "{}")
  \/ \E t \in TaskIds : BuilderStep(t)
  \/ \E t \in TaskIds : FromStep(t)
  \/ \E t \in TaskIds : RetryPolicyStep(t)
  \/ \E t \in TaskIds : IfFailureStep(t)
  \/ \E t \in TaskIds : OrElseStep(t)

SpecAppended == InitAppended /\ [][NextAppended]_vars

(* ------------------------- delays on their own ------------------------- *)

\* the strategies a caller can hand to calculateDelay
DelayStrategies ==
  {Immediate} \cup
  {ExponentialBackoff(baseDelayMs, maxDelayMs) :
     baseDelayMs \in 0..MaxBase,
     maxDelayMs \in {<<>>} \cup {<<ms>> : ms \in 0..MaxCap}}

\* a caller picks a strategy and has asked for no delay yet
InitDelay ==
  /\ heap = <<>>
  /\ tasks = <<>>
  /\ sessions = <<>>
  /\ delays \in {[retryStrategy |-> retryStrategy, results |-> <<>>] :
                  retryStrategy \in DelayStrategies}

\* the caller asks for the delay of the next attempt (1, 2, ...)
Calculate ==
  /\ Len(delays.results) < MaxAttempt
  /\ delays' = [delays EXCEPT !.results =
       Append(@, calculateDelay(delays.retryStrategy, Len(@) + 1))]
  /\ UNCHANGED <<heap, tasks, sessions>>

NextDelay == Calculate

SpecDelay == InitDelay /\ [][NextDelay]_vars

(* --------------------------- runPeriodically -------------------------- *)

\* the parameter of runPeriodically; a function with id "" is not given
PeriodicConfig(recoveryAction, onInterruption) ==
  [recoveryAction |-> recoveryAction, onInterruption |-> onInterruption, abortSignal |-> <<>>]

\* controller.signal of an AbortController, before and after abort()
AbortSignal(aborted) == <<[aborted |-> aborted]>>

\* the arguments onInterruption is called with
Failure(error, recoveryError) ==
  [cause |-> "failure", error |-> error, recoveryError |-> recoveryError]

Aborted == [cause |-> "aborted"]

\* new ResultFlow built inside a callback by ResultFlow.from(value)
InlineFrom(value) == Closure("from", <<>>, value, 0, NoFn)

\* what the mock recovery actions return: an async Result or a ResultFlow
RecoveryResults ==
  { ResultLike("Promise", FALSE, Err("e2")),
    FlowLike(InlineFrom(ResultLike("Result", TRUE, Err("e2")))),
    ResultLike("Promise", FALSE, Ok("v1")),
    FlowLike(InlineFrom(ResultLike("Result", TRUE, Ok("v1")))),
    ResultLike("Promise", FALSE, Rejected("Error")) }

RecoveryActions ==
  { [id |-> "recoveryAction", tbl |-> [x \in Errors |-> recoveryResult]] :
      recoveryResult \in RecoveryResults }

OnInterruptionMock == [id |-> "onInterruption", tbl |-> [x \in {} |-> ""]]

PeriodicConfigs ==
  { PeriodicConfig(recoveryAction, onInterruption) :
      recoveryAction \in {NoFn} \cup RecoveryActions,
      onInterruption \in {NoFn, OnInterruptionMock} }

\* an action that returns a promise of its Result
AsyncAction(res, once, times) ==
  [MockAction(res, once, times) EXCEPT !.shape = "Promise"]

\* the mock actions user code lifts into a flow to run it periodically
PeriodicActions ==
  { MockAction(Err("e1"), Ok("v1"), 2),
    MockAction(Ok("v1"), Pending, 0),
    MockAction(Err("e1"), Pending, 0),
    MockAction(Ok("v1"), Err("e1"), 1),
    AsyncAction(Err("e1"), Pending, 0),
    AsyncAction(Err("e2"), Ok("v1"), 1),
    MockAction(Rejected("Error"), Pending, 0) }

\* the state runPeriodically closes over: the flow, the configuration and
\* the interval timer; ticks, interrupts and interruptions record what the
\* timer, user code and the session have done so far
Session(this, config) ==
  [this |-> this,
   recoveryAction |-> config.recoveryAction,
   onInterruption |-> config.onInterruption,
   abortSignal |-> config.abortSignal,
   intervalId |-> "armed",
   ticks |-> 0,
   interrupts |-> 0,
   interruptions |-> <<>>]

SessionIds == 1..Len(sessions)

\* the async callback of setInterval, entered and waiting for this.run;
\* result is its local variable of that name
TickFrame(s, this, context) ==
  [runPromise |-> Closure("runPeriodically", <<>>, NoValue, this, sessions[s].recoveryAction),
   obj |-> this, pc |-> 2, i |-> 0, ctx |-> context, result |-> Pending]

\* the task waits for a promise that only a later turn of the event loop
\* settles: the promise an action returned, or the one recoveryAction did
Parked(task) ==
  /\ Active(task)
  /\ \/ /\ Top(task).runPromise.kind = "from"
        /\ Top(task).runPromise.value.shape = "Promise"
     \/ /\ Top(task).runPromise.kind = "runPeriodically"
        /\ Top(task).pc = 3

\* no microtask is left: the event loop takes the next timer or lets user
\* code run
Quiescent == \A t \in TaskIds : Done(tasks[t]) \/ Parked(tasks[t])

\* a slip: the first evaluation is started at once, not at the first tick
runPeriodicallyLeadingEdge(this, config) ==
  LET context == heap[this].context
  IN /\ Quiescent
     /\ \A s \in SessionIds : sessions[s].this # this
     /\ sessions' = Append(sessions, [Session(this, config) EXCEPT !.ticks = 1])
     /\ heap' = SetContext(heap, this, context)
     /\ tasks' = Append(tasks,
          [root |-> this, ctx |-> context, session |-> Len(sessions) + 1,
           stack |-> <<[runPromise |-> Closure("runPeriodically", <<>>, NoValue, this, config.recoveryAction),
                        obj |-> this, pc |-> 2, i |-> 0, ctx |-> context, result |-> Pending],
                       Frame(heap[this].runPromise, this, context)>>,
           trace |-> <<Event("run", "", this, "", "", context)>>,
           ret |-> Pending])
     /\ UNCHANGED delays

\* flow.runPeriodically(config): setInterval arms the timer and the handle
\* is returned; user code starts one session on a flow
runPeriodically(this, config) ==
  /\ Quiescent
  /\ \A s \in SessionIds : sessions[s].this # this
  /\ sessions' = Append(sessions, Session(this, config))
  /\ UNCHANGED <<heap, tasks, delays>>

\* a slip: a callback that was already due runs although the timer has been
\* cleared
TickIgnoringClear(s) ==
  LET this == sessions[s].this
      context == heap[this].context
  IN /\ sessions[s].ticks < MaxTicks
     /\ Quiescent
     /\ Cardinality({t \in TaskIds : tasks[t].session = s /\ Active(tasks[t])}) < MaxOverlap
     /\ heap' = SetContext(heap, this, context)
     /\ tasks' = Append(tasks,
          [root |-> this, ctx |-> context, session |-> s,
           stack |-> <<TickFrame(s, this, context), Frame(heap[this].runPromise, this, context)>>,
           trace |-> <<Event("run", "", this, "", "", context)>>,
           ret |-> Pending])
     /\ sessions' = [sessions EXCEPT ![s].ticks = @ + 1]
     /\ UNCHANGED delays

\* the interval elapses: the callback calls this.run({context: this.context})
Tick(s) ==
  LET this == sessions[s].this
      context == heap[this].context
  IN /\ sessions[s].intervalId = "armed"
     /\ sessions[s].ticks < MaxTicks
     /\ Quiescent
     /\ Cardinality({t \in TaskIds : tasks[t].session = s /\ Active(tasks[t])}) < MaxOverlap
     /\ heap' = SetContext(heap, this, context)
     /\ tasks' = Append(tasks,
          [root |-> this, ctx |-> context, session |-> s,
           stack |-> <<TickFrame(s, this, context), Frame(heap[this].runPromise, this, context)>>,
           trace |-> <<Event("run", "", this, "", "", context)>>,
           ret |-> Pending])
     /\ sessions' = [sessions EXCEPT ![s].ticks = @ + 1]
     /\ UNCHANGED delays

\* clearInterval(intervalId); onInterruption?.(param)
Interrupted(s, param) ==
  [sessions EXCEPT ![s].intervalId = "cleared",
                   ![s].interruptions = IF sessions[s].onInterruption.id # ""
                                          THEN Append(@, param)
                                          ELSE @]

\* a slip: the callback is told but the timer is left armed
interruptLeavingTimer(s) ==
  /\ Quiescent
  /\ sessions[s].interrupts < MaxInterrupts
  /\ sessions' = [sessions EXCEPT ![s].interrupts = @ + 1,
                                  ![s].interruptions = IF sessions[s].onInterruption.id # ""
                                                         THEN Append(@, Aborted)
                                                         ELSE @]
  /\ UNCHANGED <<heap, tasks, delays>>

\* the handle's interrupt(), called by user code
interrupt(s) ==
  /\ Quiescent
  /\ sessions[s].interrupts < MaxInterrupts
  /\ sessions' = [Interrupted(s, Aborted) EXCEPT ![s].interrupts = @ + 1]
  /\ UNCHANGED <<heap, tasks, delays>>

\* the callback of task t ends: its promise is fulfilled, or rejected with
\* a fault nobody handles
Finish(t, settled, calls) ==
  /\ tasks' = [tasks EXCEPT ![t] =
       [@ EXCEPT !.stack = <<>>, !.trace = @ \o calls, !.ret = settled]]
  /\ UNCHANGED <<heap, delays>>

\* a slip: a fault of the recovery is caught and reported like a failure of
\* the recovery
AfterRecoveryCatchingFault(t, s, result, recoveryResult) ==
  IF recoveryResult.tag \in {"rejected", "err"}
    THEN /\ Finish(t, Ok(Undefined), <<>>)
         /\ sessions' = Interrupted(s, Failure(result.val, recoveryResult.val))
    ELSE Finish(t, Ok(Undefined), <<>>) /\ UNCHANGED sessions

\* a slip: a failed tick stops the session whatever the recovery did
AfterRecoveryStoppingAnyway(t, s, result, recoveryResult) ==
  IF recoveryResult.tag = "rejected"
    THEN Finish(t, recoveryResult, <<>>) /\ UNCHANGED sessions
    ELSE /\ Finish(t, Ok(Undefined), <<>>)
         /\ sessions' = Interrupted(s, Failure(result.val,
              IF recoveryResult.tag = "err" THEN recoveryResult.val ELSE Undefined))

\* the end of the callback once recoveryResult is known
AfterRecovery(t, s, result, recoveryResult) ==
  IF recoveryResult.tag = "rejected"
    THEN Finish(t, recoveryResult, <<>>) /\ UNCHANGED sessions
    ELSE IF recoveryResult.tag = "err"
      THEN /\ Finish(t, Ok(Undefined), <<>>)
           /\ sessions' = Interrupted(s, Failure(result.val, recoveryResult.val))
      ELSE Finish(t, Ok(Undefined), <<>>) /\ UNCHANGED sessions

\* the callback of setInterval after `await this.run(...)`
TickStep(t) ==
  LET task == tasks[t]
      frame == Top(task)
      s == task.session
      this == frame.obj
      recoveryAction == frame.runPromise.f
      result == IF frame.pc = 2 THEN task.ret ELSE frame.result
      recoveryResultPromise == recoveryAction.tbl[result.val]
      call == <<CallEvent(recoveryAction.id, this, result.val, Undefined)>>
      context == heap[this].context
  IN /\ Active(task)
     /\ frame.runPromise.kind = "runPeriodically"
     /\ CASE frame.pc = 2 ->
               IF result.tag = "rejected"
                 THEN Finish(t, result, <<>>) /\ UNCHANGED sessions
                 ELSE IF result.tag = "ok"
                   THEN Finish(t, Ok(Undefined), <<>>) /\ UNCHANGED sessions
                   ELSE IF recoveryAction.id = ""
                     THEN /\ Finish(t, Ok(Undefined), <<>>)
                          /\ sessions' = Interrupted(s, Failure(result.val, Undefined))
                     ELSE IF isResultFlow(recoveryResultPromise)
                       THEN /\ heap' = heap
                            /\ tasks' = [tasks EXCEPT ![t] =
                                 [@ EXCEPT !.stack = Append([@ EXCEPT ![Len(@)].pc = 4,
                                                                      ![Len(@)].result = result],
                                                            Frame(recoveryResultPromise.flow, 0, context)),
                                           !.trace = @ \o call \o <<Event("run", "", 0, "", "", context)>>,
                                           !.ret = Pending]]
                            /\ UNCHANGED <<delays, sessions>>
                       ELSE /\ tasks' = [tasks EXCEPT ![t] =
                                 [@ EXCEPT !.stack = [@ EXCEPT ![Len(@)].pc = 3,
                                                               ![Len(@)].result = result],
                                           !.trace = @ \o call]]
                            /\ UNCHANGED <<heap, delays, sessions>>
          [] frame.pc = 3 -> AfterRecovery(t, s, result, recoveryResultPromise.res)
          [] frame.pc = 4 -> AfterRecovery(t, s, result, task.ret)

\* a flow lifted from a mock action, held by user code
InitPeriodic ==
  /\ heap \in {<<ResultFlow(Closure("from", <<>>, action, 0, NoFn))>> : action \in PeriodicActions}
  /\ tasks = <<>>
  /\ delays = <<>>
  /\ sessions = <<>>

NextPeriodic ==
  \/ \E this \in FlowIds, config \in PeriodicConfigs : runPeriodically(this, config)
  \/ \E s \in SessionIds : Tick(s)
  \/ \E s \in SessionIds : interrupt(s)
  \/ \E t \in TaskIds : FromStep(t)
  \/ \E t \in TaskIds : TickStep(t)

SpecPeriodic == InitPeriodic /\ [][NextPeriodic]_vars

\* a periodic session on a flow that user code also runs itself
NextShared ==
  \/ \E this \in FlowIds, config \in PeriodicConfigs : runPeriodically(this, config)
  \/ \E this \in FlowIds, c \in Contexts : UserRun(this, c)
  \/ \E s \in SessionIds : Tick(s)
  \/ \E s \in SessionIds : interrupt(s)
  \/ \E t \in TaskIds : FromStep(t)
  \/ \E t \in TaskIds : TickStep(t)

SpecShared == InitPeriodic /\ [][NextShared]_vars

\* the configurations of the README's example: an abort signal is handed in
AbortableConfigs ==
  { [config EXCEPT !.abortSignal = AbortSignal(FALSE)] : config \in PeriodicConfigs }

\* controller.abort(), called by user code; runPeriodically has registered
\* no listener on the signal, so only the signal changes
abort(s) ==
  /\ Quiescent
  /\ sessions[s].abortSignal = AbortSignal(FALSE)
  /\ sessions' = [sessions EXCEPT ![s].abortSignal = AbortSignal(TRUE)]
  /\ UNCHANGED <<heap, tasks, delays>>

NextAbortable ==
  \/ \E this \in FlowIds, config \in AbortableConfigs : runPeriodically(this, config)
  \/ \E s \in SessionIds : Tick(s)
  \/ \E s \in SessionIds : interrupt(s)
  \/ \E s \in SessionIds : abort(s)
  \/ \E t \in TaskIds : FromStep(t)
  \/ \E t \in TaskIds : TickStep(t)

SpecAbortable == InitPeriodic /\ [][NextAbortable]_vars

(* -------------------------- overlapping runs -------------------------- *)

\* a flow and a flow derived from it, held by user code
InitOverlapping ==
  /\ heap \in {<<ResultFlow(Closure("of", b, NoValue, 0, NoFn)),
                 ResultFlow(Closure("chain", <<>>, NoValue, 1, f))>> :
                 b \in {c \in Builders : \E i \in DOMAIN c : c[i].op = "probe"},
                 f \in ChainFns}
  /\ tasks = <<>>
  /\ delays = <<>>
  /\ sessions = <<>>

\* user code calls flow.run({context}) without awaiting its earlier calls
RunConcurrently(this, context) ==
  /\ Len(tasks) < MaxOverlap
  /\ heap' = SetContext(heap, this, context)
  /\ tasks' = Append(tasks,
       [root |-> this, ctx |-> context, session |-> 0,
        stack |-> <<Frame(heap[this].runPromise, this, context)>>,
        trace |-> <<Event("run", "", this, "", "", context)>>,
        ret |-> Pending])
  /\ UNCHANGED <<delays, sessions>>

NextOverlapping ==
  \/ \E this \in FlowIds, c \in Contexts : RunConcurrently(this, c)
  \/ \E t \in TaskIds : BuilderStep(t)
  \/ \E t \in TaskIds : ChainStep(t)

SpecOverlapping == InitOverlapping /\ [][NextOverlapping]_vars

(* -------------------------------- gen --------------------------------- *)

Yield(rl) == [op |-> "yield", rl |-> rl, arg |-> "", mapError |-> NoFn]

\* an async generator function: what it yields, in program order, and what
\* it returns, which depends on the value the last yield evaluated to (on
\* nothing, Undefined, when it yields nothing)
Generator(yields, returns) ==
  [yields |-> yields, returns |-> [id |-> "generator", tbl |-> returns]]

ReturnSwapped == [x \in Values \cup {Undefined} |-> IF x = "v1" THEN "v2" ELSE "v1"]

Generators ==
  { Generator(<<>>, ReturnSwapped),
    Generator(<<Yield(ResultLike("Result", FALSE, Ok("v1"))),
                Yield(ResultLike("Promise", FALSE, Ok("v2")))>>, ReturnSwapped),
    Generator(<<Yield(ResultLike("ResultAsync", FALSE, Ok("v2"))),
                Yield(ResultLike("Result", FALSE, Err("e1"))),
                Yield(ResultLike("Result", FALSE, Ok("v1")))>>, ReturnSwapped),
    Generator(<<Yield(FlowLike(InlineOf(<<TryTo(ResultLike("Result", FALSE, Ok("v1"))), Probe, ReturnValue("v2")>>))),
                Yield(ResultLike("Result", FALSE, Ok("v1")))>>, ReturnSwapped),
    Generator(<<Yield(ResultLike("Result", FALSE, Ok("v2"))),
                Yield(FlowLike(InlineOf(<<Fail("e2"), Probe, ReturnValue("v1")>>))),
                Yield(ResultLike("Promise", FALSE, Ok("v1")))>>, ReturnSwapped),
    Generator(<<Yield(ResultLike("Promise", FALSE, Err("e2"))),
                Yield(FlowLike(InlineOf(<<ReturnValue("v1")>>)))>>, ReturnSwapped) }

\* ResultFlow.gen(f): ResultFlow.of with the builder that drives f
gen(f) ==
  Construct(Closure("gen", f.yields, NoValue, 0, f.returns))

\* result = await generator.next(value) after yield number i (0: the first
\* next()): the generator runs on to its next yield or to its return
Resume(t, i, value) ==
  LET frame == Top(tasks[t])
      next == <<CallEvent("generator.next", frame.obj, value, frame.ctx)>>
  IN IF i = Len(frame.runPromise.builder)
       THEN Settle(t, Return(frame.runPromise.f.tbl[value]), next)
       ELSE Jump(t, 3, i + 1, next)

\* a slip: the value of a failed Result is sent back like that of a success
AwaitedSendingFailure(t, completion) ==
  LET frame == Top(tasks[t])
  IN IF completion.tag = "return"
       THEN Resume(t, frame.i, completion.val)
       ELSE IF completion.val.tag = "ResultInterruption"
         THEN Resume(t, frame.i, Undefined)
         ELSE Settle(t, completion, <<>>)

\* `const value = await tryTo(...)` in the loop of gen: the builder goes on
\* with the unwrapped value or ends with what tryTo threw
Awaited(t, completion) ==
  LET frame == Top(tasks[t])
  IN IF completion.tag = "return"
       THEN Resume(t, frame.i, completion.val)
       ELSE Settle(t, completion, <<>>)

\* the builder of gen
GenStep(t) ==
  LET frame == Top(tasks[t])
      value == frame.runPromise.builder[frame.i].rl
      result == tasks[t].ret
  IN /\ Active(tasks[t])
     /\ frame.runPromise.kind = "gen"
     /\ CASE frame.pc = 1 -> Resume(t, 0, Undefined)
          [] frame.pc = 2 -> Awaited(t, tryTo(AsPromise(result), NoFn))
          [] frame.pc = 3 ->
               IF isResultFlow(value)
                 THEN CallRun(t, 0, value.flow, frame.ctx, 2, <<>>)
                 ELSE Awaited(t, tryTo(value, NoFn))

NextGen ==
  \/ \E f \in Generators : gen(f)
  \/ \E this \in FlowIds, c \in Contexts : UserRun(this, c)
  \/ \E t \in TaskIds : GenStep(t)
  \/ \E t \in TaskIds : BuilderStep(t)

SpecGen == Init /\ [][NextGen]_vars

(* ------------------------- reading the traces ------------------------- *)

Outcome(x) == [tag |-> x.tag, val |-> x.val]

\* positions in the trace of task t where the promise of obj.run settled
Settled(t, obj) ==
  {i \in DOMAIN tasks[t].trace : tasks[t].trace[i].ev = "settle" /\ tasks[t].trace[i].obj = obj}

\* positions in the trace of task t where the frame of obj invoked the mock fn
Invoked(t, fn, obj) ==
  {i \in DOMAIN tasks[t].trace :
     /\ tasks[t].trace[i].ev = "call"
     /\ tasks[t].trace[i].fn = fn
     /\ tasks[t].trace[i].obj = obj}

\* the run of obj that settled at position i of the trace of task t: the
\* positions between its entry and i
InRun(t, obj, i) ==
  LET entries == {j \in 1..(i - 1) : tasks[t].trace[j].ev = "run" /\ tasks[t].trace[j].obj = obj}
      entry == CHOOSE j \in entries : \A k \in entries : k <= j
  IN (entry + 1)..(i - 1)

KindOf(obj) == heap[obj].runPromise.kind

BuilderOf(obj) == heap[obj].runPromise.builder

\* the Result a step handed to tryTo carries, after options.mapError
StepResult(stmt) ==
  IF stmt.rl.thunk
    THEN Rejected("TypeError")
    ELSE IF stmt.rl.res.tag = "err" /\ stmt.mapError.id # ""
      THEN Err(stmt.mapError.tbl[stmt.rl.res.val])
      ELSE stmt.rl.res

\* statement i is a step that fails or faults
Stops(stmt) ==
  \/ stmt.op \in {"fail", "throw"}
  \/ stmt.op \in {"tryTo", "returnTryTo"} /\ StepResult(stmt).tag # "ok"

\* index of the first statement of builder b that ends its evaluation
RECURSIVE FirstEnd(_, _)
FirstEnd(b, i) ==
  IF i >= Len(b) \/ Stops(b[i]) \/ b[i].op \in {"return", "returnTryTo"}
    THEN i
    ELSE FirstEnd(b, i + 1)

\* what the documentation says a builder evaluates to: the returned value,
\* the error of the first failed step, or the fault user code raised
Expected(b) ==
  LET stmt == b[FirstEnd(b, 1)]
  IN CASE stmt.op = "return" -> Ok(stmt.arg)
       [] stmt.op = "fail" -> Err(stmt.arg)
       [] stmt.op = "throw" -> Rejected(stmt.arg)
       [] OTHER -> StepResult(stmt)

(* ------------------------------- claims ------------------------------- *)

\* C1: run of a flow built with `of` resolves to Success(v) when the builder
\* returns v and to Failure(e) when a tryTo on a failed result or fail(e)
\* interrupted it, e being the error of the first step that failed.
C1_RunResolvesToBuilderOutcome ==
  \A t \in TaskIds : \A obj \in FlowIds : \A i \in Settled(t, obj) :
    (KindOf(obj) = "of" /\ Expected(BuilderOf(obj)).tag # "rejected")
      => Outcome(tasks[t].trace[i]) = Expected(BuilderOf(obj))

C1_Witness ==
  \E t \in TaskIds : \E u \in TaskIds :
    /\ Done(tasks[t]) /\ Done(tasks[u])
    /\ KindOf(tasks[t].root) = "of" /\ KindOf(tasks[u].root) = "of"
    /\ tasks[t].ret = Ok("v2")
    /\ tasks[u].ret = Err("e2")
    /\ Invoked(u, "probe", tasks[u].root) # {}

\* C2: once a step of a builder has failed (tryTo on a failed result, or
\* fail), no later statement of that builder is executed in that evaluation;
\* fail never returns.
C2_ShortCircuit ==
  \A t \in TaskIds :
    /\ \A k \in DOMAIN tasks[t].stack :
         LET frame == tasks[t].stack[k]
         IN frame.runPromise.kind = "of" =>
              \A j \in 1..(frame.pc - 1) : ~ Stops(frame.runPromise.builder[j])
    /\ \A obj \in FlowIds : \A i \in Invoked(t, "probe", obj) :
         KindOf(obj) = "of" =>
           \A j \in DOMAIN BuilderOf(obj) :
             ToString(j) = tasks[t].trace[i].val =>
               \A h \in 1..(j - 1) : ~ Stops(BuilderOf(obj)[h])

C2_Witness ==
  \E t \in TaskIds :
    /\ Done(tasks[t])
    /\ KindOf(tasks[t].root) = "of"
    /\ \E j \in DOMAIN BuilderOf(tasks[t].root) :
         /\ BuilderOf(tasks[t].root)[j].op = "fail"
         /\ \E h \in DOMAIN BuilderOf(tasks[t].root) : h > j /\ BuilderOf(tasks[t].root)[h].op = "probe"
    /\ tasks[t].ret.tag = "err"
    /\ Cardinality(Invoked(t, "probe", tasks[t].root)) = 1

\* C3: a fault raised by user code that is not the internal interruption (a
\* thrown exception, a rejected promise given to tryTo) is not converted
\* into a Failure: the promise of run rejects with that same fault.
C3_FaultRejectsRun ==
  \A t \in TaskIds : \A obj \in FlowIds : \A i \in Settled(t, obj) :
    (KindOf(obj) = "of" /\ Expected(BuilderOf(obj)).tag = "rejected")
      => Outcome(tasks[t].trace[i]) = Rejected(Expected(BuilderOf(obj)).val)

C3_Witness ==
  \E t \in TaskIds :
    /\ Done(tasks[t])
    /\ KindOf(tasks[t].root) = "of"
    /\ BuilderOf(tasks[t].root)[1].op = "tryTo"
    /\ BuilderOf(tasks[t].root)[1].rl.res.tag = "rejected"
    /\ tasks[t].ret = Rejected("Error")

\* C4: constructing a flow (of, from, lift) or deriving one (map, mapError,
\* chain, ifSuccess, ifFailure, orElse) invokes neither the builder, nor the
\* thunk, nor a callback; these are invoked only while a run is in progress.
C4_DeferredExecution ==
  [][/\ Len(heap') > Len(heap) => tasks' = tasks
     /\ \A t \in TaskIds : tasks'[t].trace # tasks[t].trace => Active(tasks[t])]_vars

C4_Witness ==
  /\ tasks = <<>>
  /\ Len(heap) = 2
  /\ KindOf(1) = "from"
  /\ heap[1].runPromise.value.thunk
  /\ KindOf(2) = "chain"

\* the side effects of task t: the runs it entered and the mocks it invoked
Effects(t) ==
  [i \in {j \in DOMAIN tasks[t].trace : tasks[t].trace[j].ev # "settle"} |->
     <<tasks[t].trace[i].ev, tasks[t].trace[i].fn, tasks[t].trace[i].obj, tasks[t].trace[i].val>>]

\* C5: no memoization: every call of run re-executes the builder from the
\* start, so k calls of run on a flow execute its builder, and the side
\* effects of its steps and callbacks, k times.
C5_NoMemoization ==
  \A id \in FlowIds :
    LET calls == {t \in TaskIds : tasks[t].root = id}
    IN /\ \A t \in calls :
            Cardinality({i \in DOMAIN tasks[t].trace :
                           tasks[t].trace[i].ev = "run" /\ tasks[t].trace[i].obj = id}) = 1
       /\ \A t \in calls : \A u \in calls :
            (Done(tasks[t]) /\ Done(tasks[u])) => Effects(t) = Effects(u)

C5_Witness ==
  \E id \in FlowIds :
    /\ KindOf(id) = "ifSuccess"
    /\ Cardinality({t \in TaskIds :
                      /\ tasks[t].root = id
                      /\ Done(tasks[t])
                      /\ Cardinality(Invoked(t, "sideEffect.f", id)) = 1
                      /\ Cardinality(Invoked(t, "probe", heap[id].runPromise.recv)) = 1}) = 3

\* C6: immutability: constructing c(f) and running c(f) never change the
\* outcome of f.run(), and running f alone never invokes the callback of c.
C6_Immutability ==
  \A t \in TaskIds :
    /\ \A u \in TaskIds :
         (tasks[t].root = tasks[u].root /\ Done(tasks[t]) /\ Done(tasks[u]))
           => tasks[t].ret = tasks[u].ret
    /\ \A i \in DOMAIN tasks[t].trace : tasks[t].trace[i].obj <= tasks[t].root

C6_Witness ==
  /\ Len(tasks) = 3
  /\ \A t \in TaskIds : Done(tasks[t])
  /\ tasks[1].root = 1 /\ tasks[2].root = 2 /\ tasks[3].root = 1
  /\ KindOf(2) = "mapError"
  /\ tasks[1].ret = Err("e1")
  /\ tasks[2].ret = Err("e2")
  /\ tasks[3].ret = Err("e1")

\* the Result a value returned by a chain / orElse callback denotes,
\* whatever its shape
Denoted(rl) ==
  IF rl.shape = "ResultFlow" THEN Expected(rl.flow.builder) ELSE rl.res

\* C7: chain(f): when the receiver succeeds with v, f(v) is invoked exactly
\* once and the outcome of what it returns (Result, async Result or Flow)
\* becomes the outcome; when the receiver fails with e, f is never invoked
\* and the chained flow fails with e.
C7_Chain ==
  \A t \in TaskIds : \A c \in FlowIds : \A i \in Settled(t, c) :
    KindOf(c) = "chain" =>
      LET f == heap[c].runPromise.f
          calls == Invoked(t, f.id, c) \cap InRun(t, c, i)
      IN \E r \in Settled(t, heap[c].runPromise.recv) \cap InRun(t, c, i) :
           LET received == Outcome(tasks[t].trace[r])
           IN /\ received.tag = "ok" =>
                   /\ Cardinality(calls) = 1
                   /\ \A k \in calls : tasks[t].trace[k].val = received.val
                   /\ Outcome(tasks[t].trace[i]) = Denoted(f.tbl[received.val])
              /\ received.tag = "err" =>
                   /\ calls = {}
                   /\ Outcome(tasks[t].trace[i]) = received

C7_Witness ==
  \E t \in TaskIds :
    /\ Done(tasks[t])
    /\ KindOf(tasks[t].root) = "chain"
    /\ Cardinality(Invoked(t, "chain.f", tasks[t].root)) = 1
    /\ \E k \in DOMAIN tasks[t].trace :
         /\ tasks[t].trace[k].ev = "settle"
         /\ tasks[t].trace[k].obj = 0
         /\ tasks[t].trace[k].tag = "err"
    /\ tasks[t].ret = Err("e2")

\* C8: orElse(altFn): when the receiver succeeds with v, altFn is never
\* invoked and the result is Success(v); when it fails with e, altFn(e) is
\* invoked exactly once and the outcome of what it returns (Result, async
\* Result or Flow; success or failure) replaces the failed outcome.
C8_OrElse ==
  \A t \in TaskIds : \A c \in FlowIds : \A i \in Settled(t, c) :
    KindOf(c) = "orElse" =>
      LET alternative == heap[c].runPromise.f
          calls == Invoked(t, alternative.id, c) \cap InRun(t, c, i)
      IN \E r \in Settled(t, heap[c].runPromise.recv) \cap InRun(t, c, i) :
           LET received == Outcome(tasks[t].trace[r])
           IN /\ received.tag = "ok" =>
                   /\ calls = {}
                   /\ Outcome(tasks[t].trace[i]) = received
              /\ received.tag = "err" =>
                   /\ Cardinality(calls) = 1
                   /\ \A k \in calls : tasks[t].trace[k].val = received.val
                   /\ Outcome(tasks[t].trace[i]) = Denoted(alternative.tbl[received.val])

C8_Witness ==
  \E t \in TaskIds :
    /\ Done(tasks[t])
    /\ KindOf(tasks[t].root) = "orElse"
    /\ Cardinality(Invoked(t, "orElse.alternative", tasks[t].root)) = 1
    /\ \E k \in DOMAIN tasks[t].trace :
         /\ tasks[t].trace[k].ev = "settle"
         /\ tasks[t].trace[k].obj = 0
         /\ tasks[t].trace[k].tag = "ok"
    /\ tasks[t].ret = Ok("v2")

\* C9: map(f): when the receiver succeeds with v the mapped flow succeeds
\* with f(v); when the receiver fails with e, f is never invoked and the
\* mapped flow fails with the same e.
C9_Map ==
  \A t \in TaskIds : \A c \in FlowIds : \A i \in Settled(t, c) :
    KindOf(c) = "map" =>
      LET f == heap[c].runPromise.f
      IN \E r \in Settled(t, heap[c].runPromise.recv) \cap InRun(t, c, i) :
           LET received == Outcome(tasks[t].trace[r])
           IN /\ received.tag = "ok" => Outcome(tasks[t].trace[i]) = Ok(f.tbl[received.val])
              /\ received.tag = "err" =>
                   /\ Invoked(t, f.id, c) \cap InRun(t, c, i) = {}
                   /\ Outcome(tasks[t].trace[i]) = received

C9_Witness ==
  \E t \in TaskIds :
    /\ Done(tasks[t])
    /\ KindOf(tasks[t].root) = "map"
    /\ \E r \in Settled(t, heap[tasks[t].root].runPromise.recv) :
         Outcome(tasks[t].trace[r]) = Ok("v2")
    /\ tasks[t].ret = Ok("v1")

\* C10: mapError(f): when the receiver fails with e the derived flow fails
\* with f(e); when the receiver succeeds with v, f is never invoked and the
\* derived flow succeeds with v.
C10_MapError ==
  \A t \in TaskIds : \A c \in FlowIds : \A i \in Settled(t, c) :
    KindOf(c) = "mapError" =>
      LET f == heap[c].runPromise.f
      IN \E r \in Settled(t, heap[c].runPromise.recv) \cap InRun(t, c, i) :
           LET received == Outcome(tasks[t].trace[r])
           IN /\ received.tag = "err" => Outcome(tasks[t].trace[i]) = Err(f.tbl[received.val])
              /\ received.tag = "ok" =>
                   /\ Invoked(t, f.id, c) \cap InRun(t, c, i) = {}
                   /\ Outcome(tasks[t].trace[i]) = received

C10_Witness ==
  \E t \in TaskIds :
    /\ Done(tasks[t])
    /\ KindOf(tasks[t].root) = "mapError"
    /\ \E r \in Settled(t, heap[tasks[t].root].runPromise.recv) :
         Outcome(tasks[t].trace[r]) = Err("e2")
    /\ Cardinality(Invoked(t, "mapError.f", tasks[t].root)) = 1
    /\ tasks[t].ret = Err("e1")

\* C11: ifSuccess(f): when the receiver succeeds with v, f is invoked exactly
\* once with v and the derived flow succeeds with the unchanged v whatever f
\* returns; when the receiver fails with e, f is never invoked and the
\* derived flow fails with e.
C11_IfSuccess ==
  \A t \in TaskIds : \A c \in FlowIds : \A i \in Settled(t, c) :
    KindOf(c) = "ifSuccess" =>
      LET f == heap[c].runPromise.f
          calls == Invoked(t, f.id, c) \cap InRun(t, c, i)
      IN \E r \in Settled(t, heap[c].runPromise.recv) \cap InRun(t, c, i) :
           LET received == Outcome(tasks[t].trace[r])
           IN /\ received.tag = "ok" =>
                   /\ Cardinality(calls) = 1
                   /\ \A k \in calls : tasks[t].trace[k].val = received.val
                   /\ Outcome(tasks[t].trace[i]) = received
              /\ received.tag = "err" =>
                   /\ calls = {}
                   /\ Outcome(tasks[t].trace[i]) = received

C11_Witness ==
  \E t \in TaskIds :
    /\ Done(tasks[t])
    /\ KindOf(tasks[t].root) = "ifSuccess"
    /\ heap[tasks[t].root].runPromise.f.tbl["v2"] = "v1"
    /\ \E k \in Invoked(t, "sideEffect.f", tasks[t].root) : tasks[t].trace[k].val = "v2"
    /\ tasks[t].ret = Ok("v2")

\* C12: ifFailure(f): when the receiver fails with e, f is invoked exactly
\* once with e and the derived flow still fails with the same e; when the
\* receiver succeeds with v, f is never invoked and the derived flow
\* succeeds with v.
C12_IfFailure ==
  \A t \in TaskIds : \A c \in FlowIds : \A i \in Settled(t, c) :
    KindOf(c) = "ifFailure" =>
      LET f == heap[c].runPromise.f
          calls == Invoked(t, f.id, c) \cap InRun(t, c, i)
      IN \E r \in Settled(t, heap[c].runPromise.recv) \cap InRun(t, c, i) :
           LET received == Outcome(tasks[t].trace[r])
           IN /\ received.tag = "err" =>
                   /\ Cardinality(calls) = 1
                   /\ \A k \in calls : tasks[t].trace[k].val = received.val
                   /\ Outcome(tasks[t].trace[i]) = received
              /\ received.tag = "ok" =>
                   /\ calls = {}
                   /\ Outcome(tasks[t].trace[i]) = received

C12_Witness ==
  \E t \in TaskIds :
    /\ Done(tasks[t])
    /\ KindOf(tasks[t].root) = "ifFailure"
    /\ heap[tasks[t].root].runPromise.f.tbl["e2"] = "v1"
    /\ \E k \in Invoked(t, "sideEffect.f", tasks[t].root) : tasks[t].trace[k].val = "e2"
    /\ tasks[t].ret = Err("e2")

\* the kinds of flow that evaluate a receiver
Combinators == {"map", "mapError", "chain", "ifSuccess", "ifFailure", "orElse", "retryPolicy"}

\* C13: faults pass through every combinator: when the evaluation of the
\* receiver raises a fault that is not a domain failure, the derived flow
\* invokes none of its callbacks (mapError, ifFailure, orElse; condition and
\* beforeRetry of retryPolicy), evaluates the receiver once and its run
\* rejects with that fault.
C13_FaultsPassThrough ==
  \A t \in TaskIds : \A c \in FlowIds : \A i \in Settled(t, c) :
    KindOf(c) \in Combinators =>
      LET recv == heap[c].runPromise.recv
          segment == InRun(t, c, i)
      IN \A r \in Settled(t, recv) \cap segment :
           tasks[t].trace[r].tag = "rejected" =>
             /\ \A k \in segment :
                  ~ (tasks[t].trace[k].ev \in {"call", "wait"} /\ tasks[t].trace[k].obj = c)
             /\ Cardinality({k \in segment : tasks[t].trace[k].ev = "run" /\ tasks[t].trace[k].obj = recv}) = 1
             /\ Outcome(tasks[t].trace[i]) = Outcome(tasks[t].trace[r])

C13_Witness ==
  \E t \in TaskIds :
    /\ Done(tasks[t])
    /\ KindOf(tasks[t].root) = "retryPolicy"
    /\ heap[tasks[t].root].runPromise.config.maxRetries = 2
    /\ \E r \in Settled(t, heap[tasks[t].root].runPromise.recv) :
         Outcome(tasks[t].trace[r]) = Rejected("Error")
    /\ tasks[t].ret = Rejected("Error")

\* C14: from(x) and lift(x) build the same flow, and for each accepted shape
\* of x (Result, ResultAsync, Promise of a Result, or a thunk returning one
\* of these) every run of the flow resolves to exactly the Result x denotes;
\* a thunk is invoked once per run, and only then.
C14_FromLift ==
  /\ [](\A t \in TaskIds : \A c \in FlowIds : \A i \in Settled(t, c) :
         KindOf(c) = "from" =>
           LET value == heap[c].runPromise.value
           IN /\ value.res.tag \in {"ok", "err"} => Outcome(tasks[t].trace[i]) = value.res
              /\ Cardinality(Invoked(t, "thunk", c) \cap InRun(t, c, i)) = IF value.thunk THEN 1 ELSE 0)
  /\ [][\A value \in FromValues : lift(value) <=> from(value)]_vars

C14_Witness ==
  \E t \in TaskIds : \E u \in TaskIds :
    /\ t # u
    /\ Done(tasks[t]) /\ Done(tasks[u])
    /\ tasks[t].root = tasks[u].root
    /\ KindOf(tasks[t].root) = "from"
    /\ heap[tasks[t].root].runPromise.value.thunk
    /\ heap[tasks[t].root].runPromise.value.shape = "ResultAsync"
    /\ Cardinality(Invoked(t, "thunk", tasks[t].root)) = 1
    /\ Cardinality(Invoked(u, "thunk", tasks[u].root)) = 1
    /\ tasks[t].ret = Err("e2")
    /\ tasks[u].ret = Err("e2")

\* C15: tryTo(result, {mapError: m}): when the result is a failure with
\* error e, m is invoked with e and the flow is interrupted with m(e), so
\* run resolves to Failure(m(e)); when the result is a success with v, m is
\* never invoked and tryTo yields v.
C15_TryToMapError ==
  \A t \in TaskIds : \A c \in FlowIds : \A i \in Settled(t, c) :
    KindOf(c) = "of" =>
      LET b == BuilderOf(c)
          last == FirstEnd(b, 1)
          mapped == {j \in 1..last : /\ b[j].op \in {"tryTo", "returnTryTo"}
                                      /\ b[j].mapError.id # ""
                                      /\ ~ b[j].rl.thunk}
          calls == {k \in InRun(t, c, i) : tasks[t].trace[k].ev = "call" /\ tasks[t].trace[k].obj = c
                                          /\ tasks[t].trace[k].fn \in {b[j].mapError.id : j \in mapped}}
      IN \A j \in mapped :
           /\ b[j].rl.res.tag = "err" =>
                /\ Cardinality(calls) = 1
                /\ \A k \in calls : tasks[t].trace[k].val = b[j].rl.res.val
                /\ Outcome(tasks[t].trace[i]) = Err(b[j].mapError.tbl[b[j].rl.res.val])
           /\ (\A h \in mapped : b[h].rl.res.tag = "ok") =>
                /\ calls = {}
                /\ b[j].op = "returnTryTo" => Outcome(tasks[t].trace[i]) = b[j].rl.res

C15_Witness ==
  \E t \in TaskIds : \E u \in TaskIds :
    /\ Done(tasks[t]) /\ Done(tasks[u])
    /\ KindOf(tasks[t].root) = "of" /\ KindOf(tasks[u].root) = "of"
    /\ BuilderOf(tasks[t].root)[1].mapError.id = "tryTo.mapError"
    /\ BuilderOf(tasks[t].root)[1].rl.res = Err("e1")
    /\ Cardinality(Invoked(t, "tryTo.mapError", tasks[t].root)) = 1
    /\ tasks[t].ret = Err("e2")
    /\ BuilderOf(tasks[u].root)[1].mapError.id = "tryTo.mapError"
    /\ BuilderOf(tasks[u].root)[1].rl.res = Ok("v1")
    /\ Invoked(u, "tryTo.mapError", tasks[u].root) = {}
    /\ Cardinality(Invoked(u, "probe", tasks[u].root)) = 1
    /\ tasks[u].ret = Ok("v2")

\* the builder b with every function handed to tryTo replaced by what the
\* function produces
Unthunk(b) == [j \in DOMAIN b |-> [b[j] EXCEPT !.rl.thunk = FALSE]]

\* the statements of b that hand a function to tryTo and are reached when
\* the functions before them are taken for what they produce
ThunkSteps(b) ==
  {j \in 1..FirstEnd(Unthunk(b), 1) : b[j].op \in {"tryTo", "returnTryTo"} /\ b[j].rl.thunk}

\* C16 as stated: tryTo accepts a thunk producing a Result or an async
\* Result: it invokes the thunk and treats what it produces like a directly
\* passed result (success yields the unwrapped value to the builder, failure
\* interrupts the flow with that error).
C16_TryToAcceptsThunk ==
  \A t \in TaskIds : \A c \in FlowIds : \A i \in Settled(t, c) :
    (KindOf(c) = "of" /\ ThunkSteps(BuilderOf(c)) # {})
      => Outcome(tasks[t].trace[i]) = Expected(Unthunk(BuilderOf(c)))

\* C16 amended: tryTo accepts a Result, a Promise of a Result or a
\* ResultAsync only.  Handed a thunk it never invokes it: the promise tryTo
\* returns rejects with a TypeError, options.mapError is not invoked, no
\* later statement of the builder runs, and run rejects with the TypeError.
C16_TryToRejectsThunk ==
  \A t \in TaskIds : \A c \in FlowIds : \A i \in Settled(t, c) :
    (KindOf(c) = "of" /\ ThunkSteps(BuilderOf(c)) # {}) =>
      LET b == BuilderOf(c)
          first == CHOOSE j \in ThunkSteps(b) : \A h \in ThunkSteps(b) : j <= h
      IN /\ Outcome(tasks[t].trace[i]) = Rejected("TypeError")
         /\ \A k \in InRun(t, c, i) :
              tasks[t].trace[k].ev = "call" =>
                /\ tasks[t].trace[k].fn = "probe"
                /\ \E j \in 1..(first - 1) : tasks[t].trace[k].val = ToString(j)

C16_Witness ==
  \E t \in TaskIds : \E u \in TaskIds :
    /\ Done(tasks[t]) /\ Done(tasks[u])
    /\ KindOf(tasks[t].root) = "of" /\ KindOf(tasks[u].root) = "of"
    /\ Len(BuilderOf(tasks[t].root)) = 4
    /\ BuilderOf(tasks[t].root)[2].op = "tryTo"
    /\ BuilderOf(tasks[t].root)[2].rl.thunk
    /\ BuilderOf(tasks[t].root)[2].rl.res = Ok("v1")
    /\ Cardinality(Invoked(t, "probe", tasks[t].root)) = 1
    /\ tasks[t].ret = Rejected("TypeError")
    /\ BuilderOf(tasks[u].root)[1].rl.thunk
    /\ BuilderOf(tasks[u].root)[1].rl.res = Err("e1")
    /\ tasks[u].ret = Rejected("TypeError")

\* the mocks that are handed the extras object, and the probe through which
\* a builder shows the context it was given
WithExtras == {"probe", "map.f", "mapError.f", "chain.f", "sideEffect.f", "orElse.alternative"}

Attempts(t, c, i) ==
  {k \in InRun(t, c, i) : tasks[t].trace[k].ev = "run" /\ tasks[t].trace[k].obj = heap[c].runPromise.recv}

\* positions where those evaluations settled
AttemptResults(t, c, i) == Settled(t, heap[c].runPromise.recv) \cap InRun(t, c, i)

\* positions where that run invoked beforeRetry
BeforeRetries(t, c, i) == Invoked(t, "beforeRetry", c) \cap InRun(t, c, i)

AcceptsAll(config) ==
  config.condition.id = "" \/ \A e \in Errors : config.condition.tbl[e]

\* C18: retry bounds: when every attempt of the receiver fails and the
\* condition always accepts, one run of retryPolicy({maxRetries: n})
\* evaluates the receiver exactly n + 1 times and invokes beforeRetry exactly
\* n times, with retry numbers 1..n in order, retry j coming after attempt j
\* (n is 1 when not given); when n <= 0 the receiver is evaluated exactly
\* once and beforeRetry is never invoked.
C18_RetryBounds ==
  \A t \in TaskIds : \A c \in FlowIds : \A i \in Settled(t, c) :
    KindOf(c) = "retryPolicy" =>
      LET config == heap[c].runPromise.config
          n == config.maxRetries
          attempts == Attempts(t, c, i)
          retries == BeforeRetries(t, c, i)
      IN (AcceptsAll(config) /\ \A r \in AttemptResults(t, c, i) : tasks[t].trace[r].tag = "err") =>
           /\ Cardinality(attempts) = IF n <= 0 THEN 1 ELSE n + 1
           /\ config.beforeRetry.id # "" =>
                /\ Cardinality(retries) = IF n <= 0 THEN 0 ELSE n
                /\ \A k \in retries :
                     /\ tasks[t].trace[k].tag = ToString(Cardinality({h \in retries : h <= k}))
                     /\ tasks[t].trace[k].tag = ToString(Cardinality({a \in attempts : a < k}))

C18_Witness ==
  \E t \in TaskIds :
    /\ Done(tasks[t])
    /\ KindOf(tasks[t].root) = "retryPolicy"
    /\ heap[tasks[t].root].runPromise.config.maxRetries = 3
    /\ AcceptsAll(heap[tasks[t].root].runPromise.config)
    /\ Cardinality(Invoked(t, "thunk", heap[tasks[t].root].runPromise.recv)) = 4
    /\ Cardinality(Invoked(t, "beforeRetry", tasks[t].root)) = 3
    /\ \E k \in Invoked(t, "beforeRetry", tasks[t].root) : tasks[t].trace[k].tag = "3"
    /\ tasks[t].ret.tag = "err"

\* C19: retry stops on success: as soon as an attempt of the receiver
\* succeeds with v the retried flow succeeds with v; after that attempt the
\* receiver is not evaluated again and neither condition nor beforeRetry is
\* invoked (so never, when the first attempt succeeds).
C19_RetryStopsOnSuccess ==
  \A t \in TaskIds : \A c \in FlowIds : \A i \in Settled(t, c) :
    KindOf(c) = "retryPolicy" =>
      \A r \in AttemptResults(t, c, i) :
        tasks[t].trace[r].tag = "ok" =>
          /\ Outcome(tasks[t].trace[i]) = Outcome(tasks[t].trace[r])
          /\ \A k \in Attempts(t, c, i) : k < r
          /\ \A k \in InRun(t, c, i) :
               (tasks[t].trace[k].ev \in {"call", "wait"} /\ tasks[t].trace[k].obj = c) => k < r
          /\ Cardinality(BeforeRetries(t, c, i)) \in {0, Cardinality(Attempts(t, c, i)) - 1}
          /\ Cardinality(Attempts(t, c, i)) = 1 => BeforeRetries(t, c, i) = {}

C19_Witness ==
  \E t \in TaskIds :
    /\ Done(tasks[t])
    /\ KindOf(tasks[t].root) = "retryPolicy"
    /\ heap[tasks[t].root].runPromise.config.maxRetries = 3
    /\ Cardinality(Invoked(t, "thunk", heap[tasks[t].root].runPromise.recv)) = 3
    /\ Cardinality(Invoked(t, "beforeRetry", tasks[t].root)) = 2
    /\ tasks[t].ret = Ok("v1")

\* C20: conditional retry: on the first failed attempt whose error the
\* condition rejects, the retried flow fails at once with that error:
\* beforeRetry is not invoked for it, no wait is made and the receiver is not
\* evaluated again, however many retries remain.
C20_ConditionalRetry ==
  \A t \in TaskIds : \A c \in FlowIds : \A i \in Settled(t, c) :
    KindOf(c) = "retryPolicy" =>
      LET condition == heap[c].runPromise.config.condition
      IN \A r \in AttemptResults(t, c, i) :
           (tasks[t].trace[r].tag = "err" /\ condition.id # "" /\ ~ condition.tbl[tasks[t].trace[r].val]) =>
             /\ Outcome(tasks[t].trace[i]) = Err(tasks[t].trace[r].val)
             /\ \A k \in Attempts(t, c, i) : k < r
             /\ \A k \in InRun(t, c, i) :
                  (tasks[t].trace[k].obj = c /\ k > r) =>
                    /\ tasks[t].trace[k].ev = "call"
                    /\ tasks[t].trace[k].fn = condition.id
                    /\ tasks[t].trace[k].val = tasks[t].trace[r].val

C20_Witness ==
  \E t \in TaskIds :
    /\ Done(tasks[t])
    /\ KindOf(tasks[t].root) = "retryPolicy"
    /\ heap[tasks[t].root].runPromise.config.maxRetries = 3
    /\ heap[tasks[t].root].runPromise.config.condition = AcceptE1
    /\ Cardinality(Invoked(t, "thunk", heap[tasks[t].root].runPromise.recv)) = 2
    /\ Cardinality(Invoked(t, "condition", tasks[t].root)) = 2
    /\ Cardinality(Invoked(t, "beforeRetry", tasks[t].root)) = 1
    /\ tasks[t].ret = Err("e2")

\* the retry policy the flow c was appended to, 0 when there is none
RECURSIVE PolicyBelow(_)
PolicyBelow(c) ==
  IF c = 0 THEN 0
  ELSE IF KindOf(c) = "retryPolicy" THEN c
  ELSE PolicyBelow(heap[c].runPromise.recv)

\* C21: combinators appended after retryPolicy see only the final outcome of
\* the retry loop: in one run the policy is run once, the receiver of the
\* policy is evaluated no more often than the policy itself evaluates it
\* (n + 1 times when every attempt fails), and when the loop ends in failure
\* an appended ifFailure / orElse callback is invoked exactly once, with the
\* error of the last attempt.
C21_AppendedSeeFinalOutcome ==
  \A t \in TaskIds : \A c \in FlowIds : \A i \in Settled(t, c) :
    (KindOf(c) \in {"ifFailure", "orElse"} /\ PolicyBelow(c) # 0) =>
      LET policy == PolicyBelow(c)
          config == heap[policy].runPromise.config
          segment == InRun(t, c, i)
          policyRuns == Settled(t, policy) \cap segment
          evaluations == {k \in segment : /\ tasks[t].trace[k].ev = "run"
                                          /\ tasks[t].trace[k].obj = heap[policy].runPromise.recv}
          calls == Invoked(t, heap[c].runPromise.f.id, c) \cap segment
      IN /\ Cardinality(policyRuns) = 1
         /\ \A r \in policyRuns :
              /\ evaluations = Attempts(t, policy, r)
              /\ (AcceptsAll(config) /\ \A a \in AttemptResults(t, policy, r) : tasks[t].trace[a].tag = "err") =>
                   Cardinality(evaluations) = IF config.maxRetries <= 0 THEN 1 ELSE config.maxRetries + 1
              /\ tasks[t].trace[r].tag = "err" =>
                   /\ Cardinality(calls) = 1
                   /\ \A k \in calls : tasks[t].trace[k].val = tasks[t].trace[r].val
                   /\ \A a \in AttemptResults(t, policy, r) :
                        (\A b \in AttemptResults(t, policy, r) : b <= a) =>
                          tasks[t].trace[r].val = tasks[t].trace[a].val

C21_Witness ==
  \E t \in TaskIds :
    /\ Done(tasks[t])
    /\ Len(heap) = 4
    /\ tasks[t].root = 4
    /\ heap[2].runPromise.config.maxRetries = 3
    /\ AcceptsAll(heap[2].runPromise.config)
    /\ Cardinality(Invoked(t, "thunk", 1)) = 4
    /\ Cardinality(Invoked(t, "sideEffect.f", 3)) = 1
    /\ Cardinality(Invoked(t, "orElse.alternative", 4)) = 1
    /\ tasks[t].ret = Ok("v2")

\* C22: retry exhaustion: when every one of the maxRetries + 1 attempts
\* fails, the retried flow resolves to Failure with the error of the final
\* attempt, also when successive attempts fail with different errors.
C22_RetryExhaustion ==
  \A t \in TaskIds : \A c \in FlowIds : \A i \in Settled(t, c) :
    KindOf(c) = "retryPolicy" =>
      LET n == heap[c].runPromise.config.maxRetries
          results == AttemptResults(t, c, i)
      IN (/\ Cardinality(results) = IF n <= 0 THEN 1 ELSE n + 1
          /\ \A r \in results : tasks[t].trace[r].tag = "err") =>
           \A r \in results :
             (\A h \in results : h <= r) => Outcome(tasks[t].trace[i]) = Err(tasks[t].trace[r].val)

C22_Witness ==
  \E t \in TaskIds :
    /\ Done(tasks[t])
    /\ KindOf(tasks[t].root) = "retryPolicy"
    /\ heap[tasks[t].root].runPromise.config.maxRetries = 1
    /\ \E r \in Settled(t, heap[tasks[t].root].runPromise.recv) : tasks[t].trace[r].val = "e1"
    /\ Cardinality(Settled(t, heap[tasks[t].root].runPromise.recv)) = 2
    /\ tasks[t].ret = Err("e2")

\* C23: beforeRetry is invoked with three arguments: the error of the
\* attempt that just failed, the 1-based retry number, and the extras object
\* holding the context given to run.
C23_BeforeRetryArguments ==
  \A t \in TaskIds : \A c \in FlowIds : \A i \in Settled(t, c) :
    KindOf(c) = "retryPolicy" =>
      \A k \in BeforeRetries(t, c, i) :
        LET failed == {r \in AttemptResults(t, c, i) : r < k}
        IN /\ \E r \in failed : /\ \A h \in failed : h <= r
                                 /\ tasks[t].trace[k].val = tasks[t].trace[r].val
           /\ tasks[t].trace[k].tag = ToString(Cardinality(failed))
           /\ tasks[t].trace[k].ctx = tasks[t].ctx

\* C24: for an exponential backoff strategy with base >= 0 and every attempt
\* n >= 1, calculateDelay returns min(base * 2^(n-1), max) whenever a max is
\* given (every max >= 0), and base * 2^(n-1) when no max is given.
C24_ExponentialDelay ==
  LET retryStrategy == delays.retryStrategy
  IN retryStrategy.type = "exponentialBackoff" =>
       \A n \in 1..Len(delays.results) :
         LET computed == retryStrategy.baseDelayMs * 2 ^ (n - 1)
         IN delays.results[n] =
              IF retryStrategy.maxDelayMs # <<>>
                THEN Min(computed, retryStrategy.maxDelayMs[1])
                ELSE computed

\* C25: whatever the strategy, the delay is never negative and never
\* decreases from one attempt to the next; for the immediate strategy it is
\* 0 at every attempt.
C25_DelayMonotone ==
  /\ \A n \in 1..Len(delays.results) : delays.results[n] >= 0
  /\ \A m, n \in 1..Len(delays.results) :
       m <= n => delays.results[m] <= delays.results[n]
  /\ delays.retryStrategy.type = "immediate" =>
       \A n \in 1..Len(delays.results) : delays.results[n] = 0

C25_Witness ==
  /\ delays.retryStrategy = ExponentialBackoff(1, <<3>>)
  /\ Len(delays.results) >= 4
  /\ delays.results[2] = 2
  /\ delays.results[4] = 3

\* the tick handlers of session s, in the order their ticks fired
Ticks(s) == {t \in TaskIds : tasks[t].session = s}

\* the evaluations of the receiver that session s has started
Evaluations(s) ==
  UNION {{<<t, k>> : k \in {i \in DOMAIN tasks[t].trace :
                              /\ tasks[t].trace[i].ev = "run"
                              /\ tasks[t].trace[i].obj = sessions[s].this}} : t \in Ticks(s)}

TickResult(t) ==
  IF Settled(t, tasks[t].root) = {}
    THEN Pending
    ELSE Outcome(tasks[t].trace[CHOOSE i \in Settled(t, tasks[t].root) : TRUE])

\* the calls of onInterruption that session s made with cause 'failure'
FailureInterruptions(s) ==
  SelectSeq(sessions[s].interruptions, LAMBDA param : param.cause = "failure")

\* tick handler t has ended, its evaluation failed and those of all earlier
\* ticks of the session succeeded
FirstFailure(s, t) ==
  /\ t \in Ticks(s)
  /\ Done(tasks[t])
  /\ TickResult(t).tag = "err"
  /\ \A u \in Ticks(s) : u < t => TickResult(u).tag = "ok"

\* C27: with no recoveryAction, when the receiver succeeds on the first k
\* ticks and fails with e on tick k+1, the receiver is evaluated exactly k+1
\* times, the timer is cancelled, and onInterruption is invoked exactly once
\* with {cause: 'failure', error: e, recoveryError: undefined}; no later tick
\* evaluates the receiver.
C27_StopOnFailure ==
  \A s \in SessionIds : \A t \in Ticks(s) :
    /\ sessions[s].recoveryAction.id = ""
    /\ sessions[s].onInterruption.id # ""
    /\ FirstFailure(s, t)
    => /\ Cardinality(Evaluations(s)) = Cardinality({u \in Ticks(s) : u <= t})
       /\ sessions[s].intervalId = "cleared"
       /\ FailureInterruptions(s) = <<Failure(TickResult(t).val, Undefined)>>

\* what the recovery of tick handler t resolved to: the promise that
\* recoveryAction returned, or the run of the flow it returned
RecoveryResult(s, t) ==
  LET recoveryResultPromise == sessions[s].recoveryAction.tbl[TickResult(t).val]
  IN IF isResultFlow(recoveryResultPromise)
       THEN IF Settled(t, 0) = {}
              THEN Pending
              ELSE Outcome(tasks[t].trace[CHOOSE i \in Settled(t, 0) : TRUE])
       ELSE recoveryResultPromise.res

\* C28: when a tick fails with e and the configured recoveryAction fails
\* with r, recoveryAction was invoked once, with e, the timer is cancelled,
\* onInterruption is invoked exactly once with {cause: 'failure', error: e,
\* recoveryError: r}, and the receiver is not evaluated again.
C28_StopOnFailedRecovery ==
  \A s \in SessionIds : \A t \in Ticks(s) :
    /\ sessions[s].recoveryAction.id # ""
    /\ sessions[s].onInterruption.id # ""
    /\ Done(tasks[t])
    /\ TickResult(t).tag = "err"
    /\ RecoveryResult(s, t).tag = "err"
    => /\ Cardinality(Invoked(t, "recoveryAction", sessions[s].this)) = 1
       /\ \A i \in Invoked(t, "recoveryAction", sessions[s].this) :
            tasks[t].trace[i].val = TickResult(t).val
       /\ sessions[s].intervalId = "cleared"
       /\ FailureInterruptions(s) = <<Failure(TickResult(t).val, RecoveryResult(s, t).val)>>
       /\ \A u \in Ticks(s) : u <= t

\* tick handler t of session s failed and its recovery succeeded
Recovered(s, t) ==
  /\ sessions[s].recoveryAction.id # ""
  /\ TickResult(t).tag = "err"
  /\ RecoveryResult(s, t).tag = "ok"

\* C29: when a tick fails and recoveryAction succeeds, the tick neither
\* cancels the timer nor invokes onInterruption; as long as every failed
\* tick recovers (and user code does not interrupt) the session keeps its
\* timer armed, onInterruption has not been invoked, and the next tick
\* evaluates the receiver again.
C29_RecoveryResumes ==
  /\ [](\A s \in SessionIds :
         /\ sessions[s].interrupts = 0
         /\ \A t \in Ticks(s) : TickResult(t).tag = "err" => Recovered(s, t) \/ Active(tasks[t])
         => /\ sessions[s].intervalId = "armed"
            /\ sessions[s].interruptions = <<>>)
  /\ [][\A t \in TaskIds :
          /\ tasks[t].session # 0
          /\ Active(tasks[t])
          /\ Done(tasks'[t])
          /\ Recovered(tasks[t].session, t)'
          => sessions' = sessions]_vars
  /\ [][\A s \in SessionIds :
          sessions'[s].ticks > sessions[s].ticks =>
            Cardinality(Evaluations(s)') = Cardinality(Evaluations(s)) + 1]_vars

C29_Witness ==
  /\ Len(sessions) = 1
  /\ Len(tasks) = 3
  /\ Done(tasks[1]) /\ Recovered(1, 1)
  /\ Done(tasks[2]) /\ Recovered(1, 2)
  /\ Cardinality(Evaluations(1)) = 3
  /\ sessions[1].intervalId = "armed"
  /\ sessions[1].interruptions = <<>>

\* C30: when interrupt() is called before the first tick has fired, the
\* receiver is never evaluated in that session (the timer is cancelled and
\* no tick fires afterwards), and that call invokes onInterruption exactly
\* once, with {cause: 'aborted'}.
C30_AbortBeforeFirstTick ==
  /\ [](\A s \in SessionIds :
         sessions[s].ticks = 0 /\ sessions[s].interrupts >= 1
         => /\ Evaluations(s) = {}
            /\ Ticks(s) = {}
            /\ sessions[s].intervalId = "cleared"
            /\ sessions[s].interrupts = 1 /\ sessions[s].onInterruption.id # ""
                 => sessions[s].interruptions = <<Aborted>>)
  /\ [][\A s \in SessionIds :
          sessions[s].ticks = 0 /\ sessions[s].interrupts >= 1
          => sessions'[s].ticks = 0]_vars
  /\ [][\A s \in SessionIds :
          /\ sessions[s].ticks = 0
          /\ sessions[s].interrupts = 0
          /\ sessions'[s].interrupts = 1
          /\ sessions[s].onInterruption.id # ""
          => sessions'[s].interruptions = <<Aborted>>]_vars

C30_Witness ==
  /\ Len(sessions) = 1
  /\ sessions[1].ticks = 0
  /\ sessions[1].interrupts = 1
  /\ sessions[1].onInterruption.id # ""
  /\ sessions[1].interruptions = <<Aborted>>
  /\ tasks = <<>>

\* C31: in every interleaving of ticks and interrupt(), once interrupt() has
\* returned the session starts no new evaluation of the receiver: no tick
\* fires any more, whether or not one was due, and the handlers still in
\* flight do not evaluate the receiver again.
C31_NoEvaluationAfterInterrupt ==
  [][\A s \in SessionIds :
       sessions[s].interrupts >= 1
       => /\ sessions'[s].ticks = sessions[s].ticks
          /\ Evaluations(s)' = Evaluations(s)]_vars

C31_Witness ==
  /\ Len(sessions) = 1
  /\ sessions[1].interrupts = 1
  /\ sessions[1].ticks = 2
  /\ Len(tasks) = 2
  /\ Done(tasks[1])
  /\ Active(tasks[2])
  /\ sessions[1].interruptions = <<Aborted>>

\* C32: when runPeriodically is given an abortSignal and that signal is
\* aborted, the periodic execution stops (the timer is cancelled, so no
\* further tick evaluates the receiver) and onInterruption is invoked with
\* {cause: 'aborted'}.
C32_AbortSignalStops ==
  \A s \in SessionIds :
    sessions[s].abortSignal = AbortSignal(TRUE)
    => /\ sessions[s].intervalId = "cleared"
       /\ sessions[s].onInterruption.id # "" =>
            \E i \in DOMAIN sessions[s].interruptions : sessions[s].interruptions[i] = Aborted

\* what the yields of a generator evaluate to, one after the other
YieldResults(yields) == [j \in DOMAIN yields |-> Denoted(yields[j].rl)]

\* the yields of a generator that are reached: up to the first one that
\* does not succeed
Reached(yields) ==
  {j \in DOMAIN yields : \A k \in 1..(j - 1) : YieldResults(yields)[k].tag = "ok"}

\* the values handed to generator.next during the run of g that settled at
\* position i of the trace of task t, in order
Sent(t, g, i) ==
  LET during == SubSeq(tasks[t].trace, 1, i)
      nexts == SelectSeq(during, LAMBDA e : e.ev = "call" /\ e.fn = "generator.next" /\ e.obj = g)
  IN [j \in DOMAIN nexts |-> nexts[j].val]

\* C33: a run of a flow built with gen takes the yielded Results, async
\* Results and flows in program order and sends the unwrapped value of each
\* back into the generator; at the first yielded failure it resolves to that
\* failure and the generator is not resumed again; when no yield fails it
\* succeeds with what the generator returns.
C33_Gen ==
  \A t \in TaskIds : \A g \in FlowIds : \A i \in Settled(t, g) :
    KindOf(g) = "gen" =>
      LET yields == heap[g].runPromise.builder
          results == YieldResults(yields)
          succeeded == {j \in Reached(yields) : results[j].tag = "ok"}
          sent == Sent(t, g, i)
      IN /\ Len(sent) = Cardinality(succeeded) + 1
         /\ sent[1] = Undefined
         /\ \A j \in succeeded : sent[j + 1] = results[j].val
         /\ \A j \in Reached(yields) :
              results[j].tag = "err" => Outcome(tasks[t].trace[i]) = results[j]
         /\ succeeded = DOMAIN yields =>
              Outcome(tasks[t].trace[i]) = Ok(heap[g].runPromise.f.tbl[sent[Len(sent)]])

C33_Witness ==
  \E t \in TaskIds :
    /\ Done(tasks[t])
    /\ KindOf(tasks[t].root) = "gen"
    /\ Len(BuilderOf(tasks[t].root)) = 3
    /\ tasks[t].ret = Err("e2")
    /\ Cardinality(Invoked(t, "generator.next", tasks[t].root)) = 2
    /\ \E u \in TaskIds :
         /\ Done(tasks[u])
         /\ KindOf(tasks[u].root) = "gen"
         /\ tasks[u].ret = Ok("v2")
         /\ Cardinality(Invoked(u, "generator.next", tasks[u].root)) = 3

\* what the retry policy c does between a failed attempt number k, with the
\* error it is handed, and the next one: condition is asked, beforeRetry is
\* called with the error and k, a wait of calculateDelay(strategy, k) is
\* scheduled unless that delay is 0
BetweenAttempts(c, k, error, ctx) ==
  LET config == heap[c].runPromise.config
      delay == calculateDelay(config.retryStrategy, k)
  IN (IF config.condition.id = "" THEN <<>>
      ELSE <<CallEvent(config.condition.id, c, error, Undefined)>>)
     \o (IF config.beforeRetry.id = "" THEN <<>>
         ELSE <<Event("call", config.beforeRetry.id, c, ToString(k), error, Undefined)>>)
     \o (IF delay > 0 THEN <<Event("wait", "", c, "", ToString(delay), ctx)>> ELSE <<>>)

TickContexts(t) ==
  {tasks[t].trace[i].ctx : i \in {j \in DOMAIN tasks[t].trace : tasks[t].trace[j].ev = "run"}}

\* C35: every tick of a periodic session evaluates the receiver, and a flow
\* returned by recoveryAction, with the context captured once at session
\* start: all evaluations of a session are given one and the same context,
\* also when run is called on the same flow with a different context
\* between two ticks.
C35_SessionContext ==
  \A s \in SessionIds : \A t \in Ticks(s) : \A u \in Ticks(s) :
    \A c \in TickContexts(t) : \A d \in TickContexts(u) : c = d

\* C36: in every session and every interleaving onInterruption is invoked
\* with cause 'failure' at most once, also when tick evaluations overlap
\* and more than one of them ends in failure.
C36_FailureAtMostOnce ==
  \A s \in SessionIds : Len(FailureInterruptions(s)) <= 1

\* C37: aborted is terminal: once interrupt() has been called on a session,
\* no recoveryAction is invoked and onInterruption is not fired any more,
\* neither with cause 'failure' by a tick that was in flight nor by a second
\* call of interrupt().
C37_AbortedIsTerminal ==
  [][\A s \in SessionIds :
       sessions[s].interrupts >= 1
       => /\ sessions'[s].interruptions = sessions[s].interruptions
          /\ \A t \in Ticks(s) :
               Invoked(t, "recoveryAction", sessions[s].this)' =
                 Invoked(t, "recoveryAction", sessions[s].this)]_vars

\* C38: within one periodic session at most one tick is being processed at
\* any time: no tick starts evaluating the receiver while the evaluation or
\* the recovery of an earlier tick is still pending.
C38_OneTickAtATime ==
  \A s \in SessionIds : Cardinality({t \in Ticks(s) : Active(tasks[t])}) <= 1

\* what a flow built with of, or chained on one, evaluates to when it is
\* run on its own
Alone(obj) ==
  IF KindOf(obj) = "of"
    THEN Expected(BuilderOf(obj))
    ELSE LET received == Expected(BuilderOf(heap[obj].runPromise.recv))
         IN IF received.tag = "ok"
              THEN Denoted(heap[obj].runPromise.f.tbl[received.val])
              ELSE received

\* C39: overlapping calls of run on the same flow, or on flows derived from
\* it, with different contexts are independent: each hands its own context
\* to the builders and combinator callbacks it invokes, for its whole
\* duration, and each resolves to what the flow evaluates to on its own.
C39_IndependentRuns ==
  \A t \in TaskIds :
    /\ \A i \in DOMAIN tasks[t].trace :
         \/ tasks[t].trace[i].ev \in {"run", "settle"}
         \/ tasks[t].trace[i].fn \in {"probe", "chain.f"}
         => tasks[t].trace[i].ctx = tasks[t].ctx
    /\ Done(tasks[t]) => tasks[t].ret = Alone(tasks[t].root)

C39_Witness ==
  /\ Len(tasks) = 2
  /\ tasks[1].ctx # tasks[2].ctx
  /\ tasks[1].root = 1
  /\ tasks[2].root = 2
  /\ Active(tasks[1]) /\ Active(tasks[2])
  /\ heap[1].context = tasks[2].ctx
  /\ \E i \in DOMAIN tasks[1].trace : \E j \in DOMAIN tasks[2].trace :
       /\ tasks[1].trace[i].fn = "probe"
       /\ tasks[1].trace[i].ctx = tasks[1].ctx
       /\ tasks[2].trace[j].fn = "probe"
       /\ tasks[2].trace[j].obj = 1
       /\ tasks[2].trace[j].ctx = tasks[2].ctx
  /\ tasks[1].trace[Len(tasks[1].trace)].fn = "probe"

\* the evaluation of the receiver in tick handler t of session s, or its
\* recovery, raised a fault
FaultInTick(s, t) ==
  \/ TickResult(t).tag = "rejected"
  \/ /\ TickResult(t).tag = "err"
     /\ sessions[s].recoveryAction.id # ""
     /\ RecoveryResult(s, t).tag = "rejected"

====
